---- MODULE Spec2Model ----
(***************************************************************************)
(* Cartographer: the knowledge graph, the graph queries, the query         *)
(* orchestrator (runQuery) and the architect's cycle detection             *)
(* (findCycles), as state machines.                                        *)
(*                                                                         *)
(* The specifications share the variables:                                 *)
(*   Spec        the graph is populated edge by edge and questions are     *)
(*               evaluated by QueryOrchestrator.runQuery;                  *)
(*   SpecCycles  ArchitectAgent.findCycles runs, one DFS step per action,  *)
(*               on a dependency list;                                     *)
(*   SpecStore   KnowledgeGraph.addNode / addEdge are called one at a time  *)
(*               on an empty graph;                                        *)
(*   SpecParse   QueryParser.parse is called on questions of a few words;   *)
(*   SpecKB      KnowledgeBase.store / clear are called in any order;       *)
(*   SpecAgents  the agents are registered and AgentCoordinator.runAll      *)
(*               runs them, one explore call per action;                    *)
(*   SpecBuild   buildKnowledgeGraph fills the graph from the findings,     *)
(*               one extracted function per action;                        *)
(*   SpecBuildQuery  DEPENDENCIES questions on the graph SpecBuild leaves;  *)
(*   SpecUsage   runQuery on every question of the parser's vocabulary;     *)
(*   SpecActivate  the extension from activate on: the build pass, the      *)
(*               openView command and the runQuery messages of the panels   *)
(*               (SpecActivateLive: every await of the pass settles).       *)
(***************************************************************************)
EXTENDS Integers, Sequences, FiniteSets, TLC

VARIABLES
    \* ---- ArchitectAgent.findCycles (src/src/agents/architect.ts) ----
    cyPc,            \* "idle" | "loop" | "done": position in findCycles
    deps,            \* the Dependency[] argument, a sequence of <<from, to>>
    depGraph,        \* the local Map `graph`: [keys: insertion order, adj: key -> targets]
    cycles,          \* the local `cycles`: sequence of id sequences
    visited,         \* the local Set `visited`
    recursionStack,  \* the local Set `recursionStack`
    frames,          \* the call stack of visit(): [node, path, idx] per activation
    keyIdx,          \* position of the `for (const node of graph.keys())` loop
    entered,         \* ghost: how many times visit() was entered per node id
    backHits,        \* ghost: how many neighbours were found on the recursion stack
    steps,           \* ghost: number of steps findCycles has taken
    \* ---- KnowledgeGraph (the module-level `graph`) ----
    phase,           \* "empty" | "building" | "ready": progress of buildKnowledgeGraph
    nodes,           \* the nodes in insertion order: [id, type, name, file, path]
    edges,           \* the edges in insertion order: [from, to, type]
    \* ---- QueryOrchestrator.runQuery (src/unnamed/part_001) ----
    qPc,             \* "idle" | "enrich" | "done": position in runQuery
    question,        \* the question, a sequence of words
    plan,            \* the QueryPlan of the planner, NoPlan when it was not consulted
    result,          \* the local `result` / the value runQuery returns
    base,            \* ghost: `result` as the handler returned it (before step 3)
    explainer,       \* ghost: what step 3 did: "none" | "off" | "text" | "null" | "throw"
    thrown,          \* runQuery ended by throwing
    clientEnabled,   \* ghost: "on" | "off", the check handleGeneralQuery opens with; "none" when not called
    \* ---- KnowledgeGraph driven call by call ----
    addLog,          \* ghost: the arguments of the addNode calls so far, in order
    \* ---- QueryParser.parse called on its own (src/src/nlp/queryParser.ts) ----
    parseIn,         \* the argument `question`, a sequence of words
    parsed,          \* the value parse returned, NoParse for null
    \* ---- KnowledgeBase (src/src/knowledge/knowledge-base.ts) ----
    storage,         \* the Map `storage` in insertion order: [agent, data] per key
    kbLog,           \* ghost: the store / clear calls made from outside the agents
    \* ---- AgentCoordinator (registerAgent, runAll) ----
    agPc,            \* "new" | "running" | "returned" | "thrown": position in runAll
    agents,          \* the array `agents`: [name, priority] per agent
    agIdx,           \* position of the `for (const agent of this.agents)` loop
    agLog,           \* ghost: [name, outcome, before, after] per explore call made
    agReturn,        \* the value runAll returned, NoReturn before
    regLog,          \* ghost: the agents in the order of the registerAgent calls
    \* ---- buildKnowledgeGraph, function by function ----
    bPc,             \* "start" | "functions" | "done": position in buildKnowledgeGraph
    bLog,            \* ghost: [from, call, known, to] per call name resolved
    bFailed,         \* ghost: the files whose extraction threw
    \* ---- the extension (activate, the openView command, the panels) ----
    xPc,             \* "inactive" | "activated" | "building" | "failed" | "ready"
    wsFolder,        \* vscode.workspace.workspaceFolders as buildKnowledgeGraph read it:
                     \* "unread" | "none" | "open"
    orchestrator,    \* the module-level `orchestrator` is not null
    panels,          \* the webview panels: per panel, whether the orchestrator it was given is not null
    refused,         \* ghost: how many openView commands returned without a panel
    inflight         \* ghost: the runQuery calls not yet settled: the graph as each found it

cyVars == <<cyPc, deps, depGraph, cycles, visited, recursionStack, frames,
            keyIdx, entered, backHits, steps>>

kgVars == <<phase, nodes, edges>>

qVars == <<qPc, question, plan, result, base, explainer, thrown, clientEnabled>>

storeVars == <<addLog>>

\* the variables of the further specifications
parseVars == <<parseIn, parsed>>

kbVars == <<storage, kbLog>>

agVars == <<agPc, agents, agIdx, agLog, agReturn, regLog>>

buildVars == <<bPc, bLog, bFailed>>

actVars == <<xPc, wsFolder, orchestrator, panels, refused, inflight>>

auxVars == <<storeVars, parseVars, actVars, kbVars, agVars, buildVars>>

vars == <<cyPc, deps, depGraph, cycles, visited, recursionStack, frames,
          keyIdx, entered, backHits, steps, phase, nodes, edges,
          qPc, question, plan, result, base, explainer, thrown, clientEnabled,
          addLog, parseIn, parsed, storage, kbLog,
          agPc, agents, agIdx, agLog, agReturn, regLog, bPc, bLog, bFailed,
          xPc, wsFolder, orchestrator, panels, refused, inflight>>

----------------------------------------------------------------------------
(* Bounds *)

\* longest dependency list handed to findCycles
MaxDeps == 4

\* the file ids that occur in dependency lists
DepIds == {"A", "B", "C"}

DepPairs == DepIds \X DepIds

DepLists == UNION {[1..n -> DepPairs] : n \in 0..MaxDeps}

\* most edges the build pass adds to the graph
MaxEdges == 3

----------------------------------------------------------------------------
(* Sequence helpers *)

Range(s) == {s[i] : i \in 1..Len(s)}

\* Array.prototype.indexOf: first index holding x, 0 when absent
IndexOf(s, x) ==
    IF x \in Range(s) THEN CHOOSE i \in 1..Len(s) : s[i] = x /\ \A j \in 1..(i-1) : s[j] # x
    ELSE 0

NoDuplicates(s) == \A i, j \in 1..Len(s) : i # j => s[i] # s[j]

----------------------------------------------------------------------------
(* ArchitectAgent.findCycles *)

\* for (const dep of dependencies) { if (!graph.has(from)) graph.set(from, []); graph.get(from).push(to) }
RECURSIVE BuildAdjacency(_, _)
BuildAdjacency(ds, g) ==
    IF ds = <<>> THEN g
    ELSE LET from == ds[1][1]
             to   == ds[1][2]
             g1   == IF from \in Range(g.keys)
                     THEN [g EXCEPT !.adj[from] = Append(@, to)]
                     ELSE [keys |-> Append(g.keys, from),
                           adj  |-> [k \in Range(g.keys) \cup {from} |->
                                       IF k = from THEN <<to>> ELSE g.adj[k]]]
         IN  BuildAdjacency(Tail(ds), g1)

EmptyDepGraph == [keys |-> <<>>, adj |-> [k \in {} |-> <<>>]]

\* graph.get(node) || []
Neighbors(g, node) == IF node \in Range(g.keys) THEN g.adj[node] ELSE <<>>

\* path.slice(i): from index i to the end; indexOf yields -1 for an absent
\* element (0 here) and slice(-1) is the last element alone
SliceWhole(path, i) == path

SliceFrom(path, i) ==
    IF i = 0 THEN SubSeq(path, Len(path), Len(path)) ELSE SubSeq(path, i, Len(path))

\* [...path.slice(path.indexOf(neighbor)), neighbor]
CycleSliceOpen(path, neighbor) == SliceFrom(path, IndexOf(path, neighbor))

CycleSlice(path, neighbor) == Append(SliceFrom(path, IndexOf(path, neighbor)), neighbor)

\* else if (recursionStack.has(neighbor))
OnStackAnyVisited(neighbor, rs) == TRUE

OnStackNever(neighbor, rs) == FALSE

OnStack(neighbor, rs) == neighbor \in rs

\* cycles.push(...)
PushCycleDedup(cs, c) == IF c \in Range(cs) THEN cs ELSE Append(cs, c)

PushCycle(cs, c) == Append(cs, c)

\* recursionStack.delete(node)
LeaveStackKeep(rs, node) == rs

LeaveStack(rs, node) == rs \ {node}

\* visited.add(node); recursionStack.add(node); path.push(node)  (entry of visit);
\* fs is the call stack the new activation is pushed onto
EnterVisit(fs, node, path) ==
    /\ visited' = visited \cup {node}
    /\ recursionStack' = recursionStack \cup {node}
    /\ entered' = [entered EXCEPT ![node] = @ + 1]
    /\ frames' = Append(fs, [node |-> node, path |-> Append(path, node), idx |-> 1])

Top == frames[Len(frames)]

\* the caller's frame moves on to its next neighbour
AdvanceTop(fs) == [fs EXCEPT ![Len(fs)].idx = @ + 1]

\* findCycles(dependencies): build the adjacency list, initialise the locals
FindCyclesStart ==
    /\ UNCHANGED <<kgVars, qVars, auxVars>>
    /\ cyPc = "idle"
    /\ \E d \in DepLists :
         /\ deps' = d
         /\ depGraph' = BuildAdjacency(d, EmptyDepGraph)
    /\ cycles' = <<>>
    /\ visited' = {}
    /\ recursionStack' = {}
    /\ frames' = <<>>
    /\ keyIdx' = 1
    /\ entered' = [n \in DepIds |-> 0]
    /\ backHits' = 0
    /\ steps' = 0
    /\ cyPc' = "loop"

\* for (const node of graph.keys()) if (!visited.has(node)) visit(node, [])
FindCyclesNextKey ==
    /\ UNCHANGED <<kgVars, qVars, auxVars>>
    /\ cyPc = "loop" /\ frames = <<>>
    /\ keyIdx <= Len(depGraph.keys)
    /\ depGraph.keys[keyIdx] \notin visited
    /\ EnterVisit(frames, depGraph.keys[keyIdx], <<>>)
    /\ keyIdx' = keyIdx + 1
    /\ steps' = steps + 1
    /\ UNCHANGED <<cyPc, deps, depGraph, cycles, backHits>>

FindCyclesSkipKey ==
    /\ UNCHANGED <<kgVars, qVars, auxVars>>
    /\ cyPc = "loop" /\ frames = <<>>
    /\ keyIdx <= Len(depGraph.keys)
    /\ depGraph.keys[keyIdx] \in visited
    /\ keyIdx' = keyIdx + 1
    /\ steps' = steps + 1
    /\ UNCHANGED <<cyPc, deps, depGraph, cycles, visited, recursionStack, frames,
                   entered, backHits>>

\* if (!visited.has(neighbor)) visit(neighbor, [...path])
VisitEnterNeighbor ==
    /\ UNCHANGED <<kgVars, qVars, auxVars>>
    /\ cyPc = "loop" /\ frames # <<>>
    /\ Top.idx <= Len(Neighbors(depGraph, Top.node))
    /\ LET nb == Neighbors(depGraph, Top.node)[Top.idx] IN
         /\ nb \notin visited
         /\ EnterVisit(AdvanceTop(frames), nb, Top.path)
    /\ steps' = steps + 1
    /\ UNCHANGED <<cyPc, deps, depGraph, cycles, keyIdx, backHits>>

\* else if (recursionStack.has(neighbor)) cycles.push([...path.slice(i), neighbor])
VisitEmitCycle ==
    /\ UNCHANGED <<kgVars, qVars, auxVars>>
    /\ cyPc = "loop" /\ frames # <<>>
    /\ Top.idx <= Len(Neighbors(depGraph, Top.node))
    /\ LET nb == Neighbors(depGraph, Top.node)[Top.idx] IN
         /\ nb \in visited
         /\ OnStack(nb, recursionStack)
         /\ cycles' = PushCycle(cycles, CycleSlice(Top.path, nb))
    /\ backHits' = backHits + 1
    /\ frames' = AdvanceTop(frames)
    /\ steps' = steps + 1
    /\ UNCHANGED <<cyPc, deps, depGraph, visited, recursionStack, keyIdx, entered>>

\* neighbour visited and not on the stack: neither branch is taken
VisitSkipNeighbor ==
    /\ UNCHANGED <<kgVars, qVars, auxVars>>
    /\ cyPc = "loop" /\ frames # <<>>
    /\ Top.idx <= Len(Neighbors(depGraph, Top.node))
    /\ LET nb == Neighbors(depGraph, Top.node)[Top.idx] IN
         /\ nb \in visited
         /\ ~OnStack(nb, recursionStack)
    /\ frames' = AdvanceTop(frames)
    /\ steps' = steps + 1
    /\ UNCHANGED <<cyPc, deps, depGraph, cycles, visited, recursionStack, keyIdx,
                   entered, backHits>>

\* end of the neighbour loop: recursionStack.delete(node), visit returns
VisitReturn ==
    /\ UNCHANGED <<kgVars, qVars, auxVars>>
    /\ cyPc = "loop" /\ frames # <<>>
    /\ Top.idx > Len(Neighbors(depGraph, Top.node))
    /\ recursionStack' = LeaveStack(recursionStack, Top.node)
    /\ frames' = SubSeq(frames, 1, Len(frames) - 1)
    /\ steps' = steps + 1
    /\ UNCHANGED <<cyPc, deps, depGraph, cycles, visited, keyIdx, entered, backHits>>

\* return cycles
FindCyclesReturn ==
    /\ UNCHANGED <<kgVars, qVars, auxVars>>
    /\ cyPc = "loop" /\ frames = <<>>
    /\ keyIdx > Len(depGraph.keys)
    /\ cyPc' = "done"
    /\ steps' = steps + 1
    /\ UNCHANGED <<deps, depGraph, cycles, visited, recursionStack, frames, keyIdx,
                   entered, backHits>>

\* the caller (explore) has consumed the result; the locals are gone and
\* findCycles may be called again
FindCyclesReset ==
    /\ UNCHANGED <<kgVars, qVars, auxVars>>
    /\ cyPc = "done"
    /\ cyPc' = "idle"
    /\ deps' = <<>>
    /\ depGraph' = EmptyDepGraph
    /\ cycles' = <<>>
    /\ visited' = {}
    /\ recursionStack' = {}
    /\ frames' = <<>>
    /\ keyIdx' = 1
    /\ entered' = [n \in DepIds |-> 0]
    /\ backHits' = 0
    /\ steps' = 0

FindCyclesStep ==
    \/ FindCyclesNextKey
    \/ FindCyclesSkipKey
    \/ VisitEnterNeighbor
    \/ VisitEmitCycle
    \/ VisitSkipNeighbor
    \/ VisitReturn
    \/ FindCyclesReturn

----------------------------------------------------------------------------
(* Values *)

\* a property that is not set (JavaScript undefined)
Undefined == "<undefined>"

\* JavaScript truthiness of a string-or-undefined value
Truthy(v) == v # Undefined /\ v # ""

\* the ids of the model in ascending string order (the order of `<` on strings)
IdOrder == <<"a.ts", "a.ts::f", "a.ts::g", "ba.ts", "ba.ts::f", "zz.ts">>

IdLess(x, y) == IndexOf(IdOrder, x) < IndexOf(IdOrder, y)

FileNode(p) == [id |-> p, type |-> "File", name |-> Undefined, file |-> Undefined, path |-> p]

FunctionNode(i, n, f) ==
    [id |-> i, type |-> "Function", name |-> n, file |-> f, path |-> Undefined]

\* new Set(...) turned back into an array: keep first occurrences
KeepAll(s) == s

RECURSIVE Dedupe(_)
Dedupe(s) ==
    IF s = <<>> THEN <<>>
    ELSE LET init == Dedupe(SubSeq(s, 1, Len(s) - 1))
             last == s[Len(s)]
         IN  IF last \in Range(init) THEN init ELSE Append(init, last)

\* Array.prototype.map
MapSeq(s, F(_)) == [i \in 1..Len(s) |-> F(s[i])]

\* Array.prototype.slice(0, n)
Take(s, n) == SubSeq(s, 1, IF Len(s) < n THEN Len(s) ELSE n)

----------------------------------------------------------------------------
(* KnowledgeGraph: typed node/edge store, modelled from its contract       *)

HasNode(ns, id) == \E i \in 1..Len(ns) : ns[i].id = id

\* getNode(id): the node, or absent
GetNode(ns, id) == ns[CHOOSE i \in 1..Len(ns) : ns[i].id = id]

\* addNode(node): inserts, or overwrites the node of the same id in place
AddNodeToReappended(ns, n) == Append(SelectSeq(ns, LAMBDA m : m.id # n.id), n)

AddNodeTo(ns, n) ==
    IF HasNode(ns, n.id)
    THEN [i \in 1..Len(ns) |-> IF ns[i].id = n.id THEN n ELSE ns[i]]
    ELSE Append(ns, n)

\* addEdge(edge): appends; no uniqueness or endpoint check
AddEdgeTo(es, e) == Append(es, e)

\* getNodesByType(type): insertion order
GetNodesByType(ns, t) == SelectSeq(ns, LAMBDA n : n.type = t)

\* getOutgoingEdges(id) / getIncomingEdges(id): insertion order
GetOutgoingEdges(es, id) == SelectSeq(es, LAMBDA e : e.from = id)

GetIncomingEdges(es, id) == SelectSeq(es, LAMBDA e : e.to = id)

OfType(es, t) == SelectSeq(es, LAMBDA e : e.type = t)

\* getNodeCount() / getEdgeCount()
GetNodeCount(ns) == Len(ns)

GetEdgeCount(es) == Len(es)

----------------------------------------------------------------------------
(* GraphQueries, modelled from the description of its operations          *)

\* findFunctionByName(name): exact match on data.name, insertion order
FindFunctionByName(ns, name) ==
    SelectSeq(GetNodesByType(ns, "Function"), LAMBDA n : n.name = name)

\* the edge types and the direction the blast-radius traversal follows
BlastFrontierAnyType(es, id) == MapSeq(GetIncomingEdges(es, id), LAMBDA e : e.from)

BlastFrontierOutgoing(es, id) ==
    MapSeq(OfType(GetOutgoingEdges(es, id), "CALLS"), LAMBDA e : e.to)

BlastFrontier(es, id) ==
    MapSeq(OfType(GetIncomingEdges(es, id), "CALLS"), LAMBDA e : e.from)

\* the visited set the traversal starts with
BlastStartVisitedNone(f) == {}

BlastStartVisited(f) == {f}

\* one dequeued node: its callers, in edge order, are marked, recorded and enqueued
RECURSIVE BlastVisitCallers(_, _, _)
BlastVisitCallers(callers, lvl, st) ==
    IF callers = <<>> THEN st
    ELSE LET c == Head(callers) IN
         IF c \in st.visited
         THEN BlastVisitCallers(Tail(callers), lvl, st)
         ELSE BlastVisitCallers(Tail(callers), lvl,
                [st EXCEPT !.visited = @ \cup {c},
                           !.affected = Append(@, c),
                           !.queue = Append(@, <<c, lvl + 1>>),
                           !.depth = IF lvl + 1 > @ THEN lvl + 1 ELSE @])

\* the breadth-first loop; fuel bounds the number of dequeues the model follows
RECURSIVE BlastLoop(_, _, _)
BlastLoop(es, st, fuel) ==
    IF st.queue = <<>> THEN st
    ELSE IF fuel = 0 THEN [st EXCEPT !.exhausted = TRUE]
    ELSE LET cur == Head(st.queue)
             st1 == [st EXCEPT !.queue = Tail(@)]
         IN  BlastLoop(es, BlastVisitCallers(BlastFrontier(es, cur[1]), cur[2], st1),
                       fuel - 1)

\* every dequeue takes an id enqueued once: the start, or the source of an edge
BlastFuel(es) == Len(es) + 1

\* the defining files of the affected functions, each once
AffectedFiles(ns, affected) ==
    Dedupe(MapSeq(SelectSeq(affected,
                            LAMBDA g : HasNode(ns, g) /\ Truthy(GetNode(ns, g).file)),
                  LAMBDA g : GetNode(ns, g).file))

\* functionBlastRadius(functionId)
FunctionBlastRadius(ns, es, f) ==
    IF ~HasNode(ns, f)
    THEN [affectedFunctions |-> <<>>, affectedFiles |-> <<>>, depth |-> 0,
          exhausted |-> FALSE]
    ELSE LET st == BlastLoop(es, [queue |-> << <<f, 0>> >>,
                                  visited |-> BlastStartVisited(f),
                                  affected |-> <<>>, depth |-> 0,
                                  exhausted |-> FALSE],
                             BlastFuel(es))
         IN  [affectedFunctions |-> st.affected,
              affectedFiles |-> AffectedFiles(ns, st.affected),
              depth |-> st.depth,
              exhausted |-> st.exhausted]

\* descending by score, ties ascending by id
RankedBeforeInsertion(a, b) == a.score >= b.score

RankedBefore(a, b) == a.score > b.score \/ (a.score = b.score /\ IdLess(a.id, b.id))

RECURSIVE InsertRanked(_, _)
InsertRanked(s, x) ==
    IF s = <<>> THEN <<x>>
    ELSE IF RankedBefore(x, Head(s)) THEN <<x>> \o s
    ELSE <<Head(s)>> \o InsertRanked(Tail(s), x)

RECURSIVE SortRanked(_)
SortRanked(s) ==
    IF s = <<>> THEN <<>>
    ELSE InsertRanked(SortRanked(SubSeq(s, 1, Len(s) - 1)), s[Len(s)])

\* inDegree / outDegree over CALLS edges
CallsInDegree(es, id) == Len(OfType(GetIncomingEdges(es, id), "CALLS"))

CallsOutDegree(es, id) == Len(OfType(GetOutgoingEdges(es, id), "CALLS"))

\* functionCentrality()
FunctionCentrality(ns, es) ==
    LET entry(n) == [id |-> n.id,
                     score |-> CallsInDegree(es, n.id) + CallsOutDegree(es, n.id)]
        ranked == SortRanked(MapSeq(GetNodesByType(ns, "Function"), entry))
    IN  MapSeq(ranked, LAMBDA r : [functionId |-> r.id, centrality |-> r.score,
                                   inDegree |-> CallsInDegree(es, r.id),
                                   outDegree |-> CallsOutDegree(es, r.id)])

\* the importers of a file: IMPORTS in-degree
ImporterCountByEdge(es, id) == Len(OfType(GetIncomingEdges(es, id), "IMPORTS"))

ImporterCount(es, id) ==
    Cardinality({e.from : e \in Range(OfType(GetIncomingEdges(es, id), "IMPORTS"))})

\* the functions a file defines: DEFINES out-degree
DefinesCount(es, id) == Len(OfType(GetOutgoingEdges(es, id), "DEFINES"))

\* fileImportance()
FileImportance(ns, es) ==
    LET entry(n) == [id |-> n.id,
                     score |-> DefinesCount(es, n.id) + ImporterCount(es, n.id)]
        ranked == SortRanked(MapSeq(GetNodesByType(ns, "File"), entry))
    IN  MapSeq(ranked, LAMBDA r : [fileId |-> r.id, importance |-> r.score,
                                   functionCount |-> DefinesCount(es, r.id)])

----------------------------------------------------------------------------
(* QueryParser.parse.  A question is a sequence of words (the text between  *)
(* runs of white space); every word consists of the characters the target   *)
(* class [a-zA-Z0-9_\-\.\/] accepts, and a keyword matches a whole word.     *)

\* String.prototype.toLowerCase on the words of the model
LowerTable ==
    [w \in {"Who", "Calls", "computeTotal"} |->
        CASE w = "Who" -> "who" [] w = "Calls" -> "calls" [] w = "computeTotal" -> "computetotal"]

LowerKeep(w) == w

Lower(w) == IF w \in DOMAIN LowerTable THEN LowerTable[w] ELSE w

\* question.toLowerCase().trim()
Normalize(q) == MapSeq(q, Lower)

\* s holds the words of phrase ph from position i on
PhraseAt(s, i, ph) ==
    /\ i + Len(ph) - 1 <= Len(s)
    /\ \A k \in 1..Len(ph) : s[i + k - 1] = ph[k]

\* /(?:p1|p2|..)(?:\s+c1|\s+c2|..)?\s+(target)/ at position i with phrase ph:
\* the optional connector is taken when a word follows it, else it is the target
PhraseTargetAt(s, i, ph, connectors) ==
    LET j == i + Len(ph) IN
    IF ~PhraseAt(s, i, ph) \/ j > Len(s) THEN Undefined
    ELSE IF s[j] \in connectors /\ j + 1 <= Len(s) THEN s[j + 1]
    ELSE s[j]

\* the leftmost match of the pattern in the normalized question
MatchPhrase(s, phrases, connectors) ==
    LET hits == {i \in 1..Len(s) :
                   \E ph \in phrases : PhraseTargetAt(s, i, ph, connectors) # Undefined}
    IN  IF hits = {} THEN Undefined
        ELSE LET i  == CHOOSE h \in hits : \A g \in hits : h <= g
                 ph == CHOOSE q \in phrases : PhraseTargetAt(s, i, q, connectors) # Undefined
             IN  PhraseTargetAt(s, i, ph, connectors)

\* /pre\s+(target)\s+post/: the words of pre, one target word, a word that
\* starts with post
MatchInfix(s, pre, postWords) ==
    LET hits == {i \in 1..Len(s) :
                   /\ PhraseAt(s, i, pre)
                   /\ i + Len(pre) + 1 <= Len(s)
                   /\ s[i + Len(pre) + 1] \in postWords}
    IN  IF hits = {} THEN Undefined
        ELSE s[(CHOOSE h \in hits : \A g \in hits : h <= g) + Len(pre)]

\* a || b on match results
OrElse(a, b) == IF a # Undefined THEN a ELSE b

NoParse == [intent |-> "none", target |-> Undefined]

ParsedQuery(i, t) == [intent |-> i, target |-> t]

DepMatch(s) ==
    OrElse(MatchPhrase(s, {<<"dependencies">>, <<"imports">>}, {"of", "in", "for"}),
           MatchInfix(s, <<"what", "does">>, {"import", "imports"}))

UsageMatch(s) ==
    OrElse(MatchPhrase(s, {<<"who", "calls">>, <<"usage", "of">>, <<"callers", "of">>,
                           <<"references", "to">>}, {}),
           MatchInfix(s, <<"where", "is">>, {"used"}))

HistoryMatch(s) ==
    OrElse(MatchPhrase(s, {<<"history">>, <<"changes">>, <<"commits">>, <<"evolution">>},
                       {"of", "in", "for"}),
           MatchPhrase(s, {<<"who", "touched">>}, {}))

RiskMatch(s) ==
    MatchPhrase(s, {<<"risks">>, <<"issues">>, <<"problems">>, <<"vulnerabilities">>},
                {"of", "in", "with"})

ExplainMatch(s) ==
    MatchPhrase(s, {<<"explain">>, <<"document">>, <<"describe">>, <<"complexity", "of">>}, {})

\* parse(question)
ParseRisksFirst(q) ==
    LET s == Normalize(q) IN
    IF RiskMatch(s) # Undefined THEN ParsedQuery("RISKS", RiskMatch(s))
    ELSE IF DepMatch(s) # Undefined THEN ParsedQuery("DEPENDENCIES", DepMatch(s))
    ELSE IF UsageMatch(s) # Undefined THEN ParsedQuery("USAGE", UsageMatch(s))
    ELSE IF HistoryMatch(s) # Undefined THEN ParsedQuery("HISTORY", HistoryMatch(s))
    ELSE IF ExplainMatch(s) # Undefined THEN ParsedQuery("EXPLAIN", ExplainMatch(s))
    ELSE NoParse

Parse(q) ==
    LET s == Normalize(q) IN
    IF DepMatch(s) # Undefined THEN ParsedQuery("DEPENDENCIES", DepMatch(s))
    ELSE IF UsageMatch(s) # Undefined THEN ParsedQuery("USAGE", UsageMatch(s))
    ELSE IF HistoryMatch(s) # Undefined THEN ParsedQuery("HISTORY", HistoryMatch(s))
    ELSE IF RiskMatch(s) # Undefined THEN ParsedQuery("RISKS", RiskMatch(s))
    ELSE IF ExplainMatch(s) # Undefined THEN ParsedQuery("EXPLAIN", ExplainMatch(s))
    ELSE NoParse

\* the questions put to runQuery
Questions ==
    { <<"dependencies", "of", "src/a.ts">>,
      <<"imports", "in", "zz.ts">>,
      <<"Who", "Calls", "f">>,
      <<"where", "is", "h", "used">>,
      <<"history", "of", "a.ts">>,
      <<"issues", "with", "a.ts">>,
      <<"explain", "f">>,
      <<"hello", "world">> }

----------------------------------------------------------------------------
(* QueryPlanner.plan: a question may be given any QueryPlan                *)

NoPlan == [intent |-> "none", functionName |-> Undefined]

QueryPlan(i, n) == [intent |-> i, functionName |-> n]

Plans ==
    {QueryPlan(i, n) : i \in {"blast_radius", "find_function"}, n \in {Undefined, "f", "h"}}
    \cup {QueryPlan(i, Undefined) : i \in {"central_functions", "important_files", "unknown"}}

----------------------------------------------------------------------------
(* QueryResult.  An optional property holds None or Some(value); metadata   *)
(* is a record, NoMetadata when not set; contextPreview is the sequence of  *)
(* the parts the text is built from.                                       *)

None == <<>>

Some(x) == <<x>>

\* result.functions || []
OrEmpty(opt) == IF opt = None THEN <<>> ELSE opt[1]

NoMetadata == [absent |-> TRUE]

NoResult == [intent |-> "none", files |-> <<>>, functions |-> None,
             metadata |-> NoMetadata, contextPreview |-> None]

QueryResult(i, fs, fns, md, cp) ==
    [intent |-> i, files |-> fs, functions |-> fns, metadata |-> md, contextPreview |-> cp]

----------------------------------------------------------------------------
(* QueryOrchestrator handlers *)

\* handleBlastRadius(plan)
HandleBlastRadius(ns, es, pl) ==
    IF ~Truthy(pl.functionName)
    THEN QueryResult("blast_radius", <<>>, Some(<<>>),
                     [error |-> <<"Function name not found in question">>], None)
    ELSE LET functions == FindFunctionByName(ns, pl.functionName) IN
         IF functions = <<>>
         THEN QueryResult("blast_radius", <<>>, Some(<<>>),
                          [error |-> <<"Function", pl.functionName, "not found">>], None)
         ELSE LET functionId == functions[1].id
                  blastRadius == FunctionBlastRadius(ns, es, functionId)
              IN  QueryResult("blast_radius", blastRadius.affectedFiles,
                              Some(blastRadius.affectedFunctions),
                              [functionId |-> functionId, depth |-> blastRadius.depth,
                               affectedCount |-> Len(blastRadius.affectedFunctions)],
                              None)

\* the number of entries handleCentralFunctions keeps
TopFunctions == 20

\* the number of entries handleImportantFiles keeps
TopFiles == 10

\* handleCentralFunctions()
HandleCentralFunctions(ns, es) ==
    LET topFunctions == Take(FunctionCentrality(ns, es), TopFunctions)
        withFile == SelectSeq(topFunctions,
                              LAMBDA f : HasNode(ns, f.functionId)
                                         /\ Truthy(GetNode(ns, f.functionId).file))
    IN  QueryResult("central_functions",
                    Dedupe(MapSeq(withFile, LAMBDA f : GetNode(ns, f.functionId).file)),
                    Some(MapSeq(topFunctions, LAMBDA f : f.functionId)),
                    [functions |-> MapSeq(topFunctions,
                        LAMBDA f : [id |-> f.functionId, centrality |-> f.centrality,
                                    inDegree |-> f.inDegree, outDegree |-> f.outDegree])],
                    None)

\* handleImportantFiles()
HandleImportantFiles(ns, es) ==
    LET topFiles == Take(FileImportance(ns, es), TopFiles) IN
    QueryResult("important_files",
                MapSeq(topFiles, LAMBDA f : f.fileId),
                None,
                [files |-> MapSeq(topFiles,
                    LAMBDA f : [file |-> f.fileId, importance |-> f.importance,
                                functionCount |-> f.functionCount])],
                None)

\* handleFindFunction(plan); data.startLine is carried along and not modelled
HandleFindFunction(ns, es, pl) ==
    IF ~Truthy(pl.functionName)
    THEN QueryResult("find_function", <<>>, Some(<<>>), NoMetadata, None)
    ELSE LET functions == FindFunctionByName(ns, pl.functionName) IN
         QueryResult("find_function",
                     Dedupe(MapSeq(SelectSeq(functions, LAMBDA f : Truthy(f.file)),
                                   LAMBDA f : f.file)),
                     Some(MapSeq(functions, LAMBDA f : f.id)),
                     [functions |-> MapSeq(functions,
                         LAMBDA f : [id |-> f.id, name |-> f.name, file |-> f.file])],
                     None)

\* the files handleGeneralQuery selects to read
GeneralFilesLimit == 20

GeneralImportantLimit == 15

\* handleGeneralQuery(question): llm is isEnabled() as read here, ws whether a
\* workspace folder is open, answer what answerCodebaseQuestion does
HandleGeneralQuery(ns, es, llm, ws, answer) ==
    IF ~llm
    THEN QueryResult("unknown", <<>>, Some(<<>>), NoMetadata,
                     Some(<<"Gemini API is not enabled. Please configure your API key in settings.">>))
    ELSE IF ~ws
    THEN QueryResult("general_query", <<>>, Some(<<>>), NoMetadata,
                     Some(<<"No workspace folder found.">>))
    ELSE IF answer = "throw"
    THEN QueryResult("general_query", <<>>, Some(<<>>), NoMetadata, Some(<<"Error:">>))
    ELSE LET allFiles == MapSeq(GetNodesByType(ns, "File"), LAMBDA n : n.path)
             importantFiles == MapSeq(Take(FileImportance(ns, es), GeneralImportantLimit),
                                      LAMBDA f : f.fileId)
             filesToRead == Take(Dedupe(importantFiles \o Take(allFiles, GeneralFilesLimit)),
                                 GeneralFilesLimit)
         IN  QueryResult("general_query", filesToRead, None, NoMetadata,
                         Some(IF answer = "text" THEN <<"answer">>
                              ELSE <<"Failed to get answer from Gemini API.">>))

\* path.basename on the targets of the model
BasenameTable == [t \in {"src/a.ts"} |-> "a.ts"]

Basename(t) == IF t \in DOMAIN BasenameTable THEN BasenameTable[t] ELSE t

\* String.prototype.endsWith on the paths and base names of the model
ProperSuffixes == {<<"ba.ts", "a.ts">>}

EndsWith(p, suffix) == p = suffix \/ <<p, suffix>> \in ProperSuffixes

\* handleDependencies(target)
HandleDependenciesUnfiltered(ns, es, target) ==
    LET fileName == Basename(target)
        files == SelectSeq(GetNodesByType(ns, "File"), LAMBDA n : EndsWith(n.path, fileName))
    IN  IF files = <<>>
        THEN QueryResult("DEPENDENCIES", <<>>, None,
                         [error |-> <<"File", target, "not found">>], None)
        ELSE LET imports == OfType(GetOutgoingEdges(es, files[1].id), "IMPORTS")
                 dependencies == MapSeq(imports, LAMBDA e : e.to)
             IN  QueryResult("DEPENDENCIES", <<files[1].path>>, None,
                             [count |-> Len(dependencies), dependencies |-> dependencies],
                             Some(<<"Dependencies of", fileName>>
                                  \o MapSeq(dependencies, LAMBDA d : Basename(d))))

HandleDependencies(ns, es, target) ==
    LET fileName == Basename(target)
        files == SelectSeq(GetNodesByType(ns, "File"), LAMBDA n : EndsWith(n.path, fileName))
    IN  IF files = <<>>
        THEN QueryResult("DEPENDENCIES", <<>>, None,
                         [error |-> <<"File", target, "not found">>], None)
        ELSE LET fileId == files[1].id
                 imports == OfType(GetOutgoingEdges(es, fileId), "IMPORTS")
                 present == SelectSeq(imports,
                                      LAMBDA e : HasNode(ns, e.to) /\ Truthy(GetNode(ns, e.to).path))
                 dependencies == MapSeq(present, LAMBDA e : GetNode(ns, e.to).path)
             IN  QueryResult("DEPENDENCIES", <<files[1].path>>, None,
                             [count |-> Len(dependencies), dependencies |-> dependencies],
                             Some(<<"Dependencies of", fileName>>
                                  \o MapSeq(dependencies, LAMBDA d : Basename(d))))

\* handleUsage(target)
HandleUsage(ns, es, target) ==
    LET functions == SelectSeq(GetNodesByType(ns, "Function"), LAMBDA n : n.name = target) IN
    IF functions = <<>>
    THEN QueryResult("USAGE", <<>>, None, [error |-> <<"Function", target, "not found">>], None)
    ELSE LET funcId == functions[1].id
             callers == OfType(GetIncomingEdges(es, funcId), "CALLS")
             named == SelectSeq(callers,
                                LAMBDA e : HasNode(ns, e.from) /\ Truthy(GetNode(ns, e.from).name))
             callingFunctions == MapSeq(named, LAMBDA e : GetNode(ns, e.from).name)
         IN  QueryResult("USAGE", <<functions[1].file>>, Some(<<funcId>>),
                         [count |-> Len(callingFunctions), callers |-> callingFunctions],
                         Some(<<"Function", target, "is called by">> \o callingFunctions))

\* handleHistory(target)
HandleHistory(target) ==
    QueryResult("HISTORY", <<>>, None, [warning |-> "Not fully implemented yet"],
                Some(<<"History analysis for", target>>))

\* handleRisks(target)
HandleRisks(target) ==
    QueryResult("RISKS", <<>>, None, [warning |-> "Not fully implemented yet"],
                Some(<<"Risk analysis for", target>>))

\* the intents of the parser that runQuery answers without the planner
DirectIntentsNoRisks == {"DEPENDENCIES", "USAGE", "HISTORY"}

DirectIntents == {"DEPENDENCIES", "USAGE", "HISTORY", "RISKS"}

\* switch (parsed.intent)
ParsedResult(ns, es, pq) ==
    CASE pq.intent = "DEPENDENCIES" -> HandleDependencies(ns, es, pq.target)
      [] pq.intent = "USAGE"        -> HandleUsage(ns, es, pq.target)
      [] pq.intent = "HISTORY"      -> HandleHistory(pq.target)
      [] pq.intent = "RISKS"        -> HandleRisks(pq.target)

\* the intents of the planner that have a graph query
GraphIntents == {"blast_radius", "central_functions", "important_files", "find_function"}

\* switch (plan.intent), the four cases
PlanResult(ns, es, pl) ==
    CASE pl.intent = "blast_radius"      -> HandleBlastRadius(ns, es, pl)
      [] pl.intent = "central_functions" -> HandleCentralFunctions(ns, es)
      [] pl.intent = "important_files"   -> HandleImportantFiles(ns, es)
      [] pl.intent = "find_function"     -> HandleFindFunction(ns, es, pl)

\* step 3: the try block around buildContextPreview and explainResult; outcome
\* is what the explainer did
EnrichResultFailing(res, outcome) ==
    IF outcome = "text" THEN [result |-> [res EXCEPT !.contextPreview = Some(<<"explanation">>)],
                              thrown |-> FALSE]
    ELSE IF outcome = "throw"
    THEN [result |-> QueryResult(res.intent, <<>>, Some(<<>>), [error |-> <<"LLM failed">>], None),
          thrown |-> TRUE]
    ELSE [result |-> res, thrown |-> FALSE]

EnrichResult(res, outcome) ==
    IF outcome = "text" THEN [result |-> [res EXCEPT !.contextPreview = Some(<<"explanation">>)],
                              thrown |-> FALSE]
    ELSE [result |-> res, thrown |-> FALSE]

\* getGraphPayload (webview), function nodes: centrality = inEdges.length + outEdges.length
\* over the CALLS edges
PayloadCentrality(es, id) ==
    Len(OfType(GetIncomingEdges(es, id), "CALLS")) + Len(OfType(GetOutgoingEdges(es, id), "CALLS"))

----------------------------------------------------------------------------
(* The build pass, as far as the graph goes.  The nodes arrive in the      *)
(* order of metadata.files; the edges are admitted in any order and any     *)
(* number up to MaxEdges, which covers every graph the pass can leave.      *)

NodeConfigs ==
    { << FileNode("a.ts"), FileNode("ba.ts"),
         FunctionNode("a.ts::f", "f", "a.ts"), FunctionNode("a.ts::g", "g", "a.ts"),
         FunctionNode("ba.ts::f", "f", "ba.ts") >>,
      << FileNode("ba.ts"), FileNode("a.ts"),
         FunctionNode("ba.ts::f", "f", "ba.ts"), FunctionNode("a.ts::g", "g", "a.ts"),
         FunctionNode("a.ts::f", "f", "a.ts") >> }

Edge(f, t, ty) == [from |-> f, to |-> t, type |-> ty]

EdgeCandidates ==
    { Edge("a.ts::f", "a.ts::g", "CALLS"), Edge("a.ts::g", "ba.ts::f", "CALLS"),
      Edge("ba.ts::f", "a.ts::f", "CALLS"), Edge("a.ts::f", "a.ts::f", "CALLS"),
      Edge("ba.ts", "ba.ts::f", "DEFINES"),
      Edge("a.ts", "ba.ts", "IMPORTS"), Edge("ba.ts", "a.ts", "IMPORTS") }

\* graph.addNode for the files and the extracted functions
PopulateNodes ==
    /\ phase = "empty"
    /\ \E cfg \in NodeConfigs : nodes' = cfg
    /\ phase' = "building"
    /\ UNCHANGED <<edges, qVars, cyVars, auxVars>>

\* graph.addEdge
AddEdge ==
    /\ phase = "building"
    /\ Len(edges) < MaxEdges
    /\ \E e \in EdgeCandidates : edges' = AddEdgeTo(edges, e)
    /\ UNCHANGED <<phase, nodes, qVars, cyVars, auxVars>>

\* buildKnowledgeGraph returns; orchestrator = new QueryOrchestrator(graph, geminiClient)
FinishBuild ==
    /\ phase = "building"
    /\ phase' = "ready"
    /\ UNCHANGED <<nodes, edges, qVars, cyVars, auxVars>>

----------------------------------------------------------------------------
(* QueryOrchestrator.runQuery *)

\* steps 0: the parser matched one of the intents answered directly
RunQueryParsedOn(qs) ==
    /\ phase = "ready" /\ qPc = "idle"
    /\ \E q \in qs :
         /\ Parse(q).intent \in DirectIntents
         /\ question' = q
         /\ result' = ParsedResult(nodes, edges, Parse(q))
    /\ base' = result'
    /\ plan' = NoPlan
    /\ explainer' = "none"
    /\ thrown' = FALSE
    /\ clientEnabled' = "none"
    /\ qPc' = "done"
    /\ UNCHANGED <<kgVars, cyVars, auxVars>>

RunQueryParsed == RunQueryParsedOn(Questions)

\* steps 1 and 2: no match (or EXPLAIN): plan the query and run its graph query
RunQueryPlannedCompacting ==
    /\ phase = "ready" /\ qPc = "idle"
    /\ \E q \in Questions, pl \in Plans :
         /\ Parse(q).intent \notin DirectIntents
         /\ pl.intent \in GraphIntents
         /\ question' = q
         /\ plan' = pl
         /\ result' = PlanResult(nodes, Dedupe(edges), pl)
    /\ edges' = Dedupe(edges)
    /\ base' = result'
    /\ explainer' = "none"
    /\ thrown' = FALSE
    /\ clientEnabled' = "none"
    /\ qPc' = "enrich"
    /\ UNCHANGED <<phase, nodes, cyVars, auxVars>>

RunQueryPlanned ==
    /\ phase = "ready" /\ qPc = "idle"
    /\ \E q \in Questions, pl \in Plans :
         /\ Parse(q).intent \notin DirectIntents
         /\ pl.intent \in GraphIntents
         /\ question' = q
         /\ plan' = pl
         /\ result' = PlanResult(nodes, edges, pl)
    /\ base' = result'
    /\ explainer' = "none"
    /\ thrown' = FALSE
    /\ clientEnabled' = "none"
    /\ qPc' = "enrich"
    /\ UNCHANGED <<kgVars, cyVars, auxVars>>

\* steps 1 and 2, default case of the switch: handleGeneralQuery
RunQueryGeneral ==
    /\ phase = "ready" /\ qPc = "idle"
    /\ \E q \in Questions, pl \in Plans :
         /\ Parse(q).intent \notin DirectIntents
         /\ pl.intent \notin GraphIntents
         /\ question' = q
         /\ plan' = pl
         /\ \E llm \in BOOLEAN, ws \in BOOLEAN, answer \in {"text", "null", "throw"} :
              /\ result' = HandleGeneralQuery(nodes, edges, llm, ws, answer)
              /\ clientEnabled' = IF llm THEN "on" ELSE "off"
    /\ base' = result'
    /\ explainer' = "none"
    /\ thrown' = FALSE
    /\ qPc' = "enrich"
    /\ UNCHANGED <<kgVars, cyVars, auxVars>>

\* step 3 not taken: no client, client not enabled, or a general_query result
RunQuerySkipEnrich ==
    /\ qPc = "enrich"
    /\ explainer' = "off"
    /\ qPc' = "done"
    /\ UNCHANGED <<kgVars, cyVars, auxVars, question, plan, result, base, thrown,
                   clientEnabled>>

\* step 3 taken whatever the intent of the result
RunQueryEnrichGeneral ==
    /\ qPc = "enrich"
    /\ \E outcome \in {"text", "null", "throw"} :
         /\ explainer' = outcome
         /\ result' = EnrichResult(result, outcome).result
         /\ thrown' = EnrichResult(result, outcome).thrown
    /\ qPc' = "done"
    /\ UNCHANGED <<kgVars, cyVars, auxVars, question, plan, base, clientEnabled>>

\* step 3: the explainer is asked and returns a text, returns nothing or throws
RunQueryEnrich ==
    /\ qPc = "enrich"
    /\ result.intent # "general_query"
    /\ \E outcome \in {"text", "null", "throw"} :
         /\ explainer' = outcome
         /\ result' = EnrichResult(result, outcome).result
         /\ thrown' = EnrichResult(result, outcome).thrown
    /\ qPc' = "done"
    /\ UNCHANGED <<kgVars, cyVars, auxVars, question, plan, base, clientEnabled>>

\* the caller has the result; the next question may come
RunQueryReturn ==
    /\ qPc = "done"
    /\ qPc' = "idle"
    /\ question' = <<>>
    /\ plan' = NoPlan
    /\ result' = NoResult
    /\ base' = NoResult
    /\ explainer' = "none"
    /\ thrown' = FALSE
    /\ clientEnabled' = "none"
    /\ UNCHANGED <<kgVars, cyVars, auxVars>>

----------------------------------------------------------------------------
(* KnowledgeGraph driven call by call: any sequence of addNode / addEdge    *)
(* on an empty graph.  A re-inserted id keeps its type (the data model's    *)
(* invariant) and brings new data.                                          *)

\* most addNode calls in a sequence
MaxAdds == 4

\* most addEdge calls in a sequence
MaxStoreEdges == 2

StoreNodes ==
    { FileNode("a.ts"), [FileNode("a.ts") EXCEPT !.path = "src/a.ts"], FileNode("ba.ts"),
      FunctionNode("a.ts::f", "f", "a.ts"), FunctionNode("a.ts::f", "g", "a.ts"),
      [id |-> "src", type |-> "Folder", name |-> Undefined, file |-> Undefined,
       path |-> "src"] }

StoreEdges == { Edge("a.ts", "ba.ts", "IMPORTS"), Edge("a.ts", "a.ts::f", "DEFINES") }

\* graph.addNode(node)
StoreAddNode ==
    /\ Len(addLog) < MaxAdds
    /\ \E n \in StoreNodes :
         /\ nodes' = AddNodeTo(nodes, n)
         /\ addLog' = Append(addLog, n)
    /\ UNCHANGED <<phase, edges, cyVars, qVars, parseVars, actVars, kbVars, agVars, buildVars>>

\* graph.addEdge(edge)
StoreAddEdge ==
    /\ Len(edges) < MaxStoreEdges
    /\ \E e \in StoreEdges : edges' = AddEdgeTo(edges, e)
    /\ UNCHANGED <<phase, nodes, cyVars, qVars, storeVars, parseVars, actVars, kbVars, agVars, buildVars>>

InitStore == addLog = <<>>

NextStore == StoreAddNode \/ StoreAddEdge

----------------------------------------------------------------------------
(* QueryParser.parse called on its own, on every question of up to          *)
(* MaxWords words of the vocabulary                                         *)

MaxWords == 3

ParseWords ==
    {"dependencies", "imports", "of", "who", "calls", "history", "risks", "explain",
     "foo.ts", "computeTotal", "hello", "world"}

ParseInputs == UNION {[1..n -> ParseWords] : n \in 1..MaxWords}

\* parsed = parser.parse(question)
ParseCall ==
    /\ parseIn = <<>>
    /\ \E q \in ParseInputs :
         /\ parseIn' = q
         /\ parsed' = Parse(q)
    /\ UNCHANGED <<kgVars, cyVars, qVars, storeVars, actVars, kbVars, agVars, buildVars>>

\* the caller has the value; the next question may come
ParseReturn ==
    /\ parseIn # <<>>
    /\ parseIn' = <<>>
    /\ parsed' = NoParse
    /\ UNCHANGED <<kgVars, cyVars, qVars, storeVars, actVars, kbVars, agVars, buildVars>>

----------------------------------------------------------------------------
(* runQuery on every question of the vocabulary that the parser answers     *)
(* directly, on the graph of a file that defines computeTotal, computetotal *)
(* or both                                                                  *)

UsageGraphs ==
    LET upper == FunctionNode("a.ts::computeTotal", "computeTotal", "a.ts")
        lower == FunctionNode("a.ts::computetotal", "computetotal", "a.ts")
        defs(n) == Edge("a.ts", n.id, "DEFINES")
    IN  { [ns |-> <<FileNode("a.ts"), upper>>, es |-> <<defs(upper)>>],
          [ns |-> <<FileNode("a.ts"), upper>>,
           es |-> <<defs(upper), Edge(upper.id, upper.id, "CALLS")>>],
          [ns |-> <<FileNode("a.ts"), lower, upper>>,
           es |-> <<defs(lower), defs(upper), Edge(lower.id, upper.id, "CALLS")>>],
          [ns |-> <<FileNode("a.ts"), lower>>, es |-> <<defs(lower)>>] }

\* the build pass has filled the graph; the orchestrator is created
UsagePopulate ==
    /\ phase = "empty"
    /\ \E g \in UsageGraphs : nodes' = g.ns /\ edges' = g.es
    /\ phase' = "ready"
    /\ UNCHANGED <<qVars, cyVars, auxVars>>

UsageAsk == RunQueryParsedOn(ParseInputs)

NextUsage == UsagePopulate \/ UsageAsk \/ RunQueryReturn

InitParse ==
    /\ parseIn = <<>>
    /\ parsed = NoParse

NextParse == ParseCall \/ ParseReturn

----------------------------------------------------------------------------
(* KnowledgeBase.  A finding is [agent, data]; its timestamp (Date.now()) is *)
(* never read by get or getAll and is left out.                             *)

\* the value get returns for a name without a finding
Null == "<null>"

KbHas(st, name) == \E i \in 1..Len(st) : st[i].agent = name

\* storage.set(agentName, {agent, timestamp, data}): a new key goes last, an
\* existing key keeps its place
KbStoreAppending(st, name, data) == Append(st, [agent |-> name, data |-> data])

KbStore(st, name, data) ==
    IF KbHas(st, name)
    THEN [i \in 1..Len(st) |-> IF st[i].agent = name
                               THEN [agent |-> name, data |-> data] ELSE st[i]]
    ELSE Append(st, [agent |-> name, data |-> data])

\* get(agentName): storage.get(agentName), its data or null
KbGet(st, name) ==
    IF KbHas(st, name)
    THEN st[CHOOSE i \in 1..Len(st) :
              st[i].agent = name /\ \A j \in 1..(i - 1) : st[j].agent # name].data
    ELSE Null

\* getAll(): result[key] = value.data over storage.entries(), in order
RECURSIVE KbGetAllFrom(_, _)
KbGetAllFrom(st, acc) ==
    IF st = <<>> THEN acc
    ELSE KbGetAllFrom(Tail(st),
            [k \in DOMAIN acc \cup {Head(st).agent} |->
                IF k = Head(st).agent THEN Head(st).data ELSE acc[k]])

KbGetAll(st) == KbGetAllFrom(st, << >>)

\* clear()
KbClear(st) == <<>>

\* most store / clear calls in a sequence
MaxKbOps == 4

KbNames == {"archaeologist", "detective", "historian"}

KbData == {"d1", "d2"}

\* knowledgeBase.store(agentName, data)
KbStoreCall ==
    /\ Len(kbLog) < MaxKbOps
    /\ \E n \in KbNames, d \in KbData :
         /\ storage' = KbStore(storage, n, d)
         /\ kbLog' = Append(kbLog, [op |-> "store", agent |-> n, data |-> d])
    /\ UNCHANGED <<kgVars, cyVars, qVars, storeVars, parseVars, actVars, agVars, buildVars>>

\* knowledgeBase.clear()
KbClearCall ==
    /\ Len(kbLog) < MaxKbOps
    /\ storage' = KbClear(storage)
    /\ kbLog' = Append(kbLog, [op |-> "clear", agent |-> Null, data |-> Null])
    /\ UNCHANGED <<kgVars, cyVars, qVars, storeVars, parseVars, actVars, agVars, buildVars>>

\* new KnowledgeBase()
InitKB ==
    /\ storage = <<>>
    /\ kbLog = <<>>

NextKB == KbStoreCall \/ KbClearCall

----------------------------------------------------------------------------
(* AgentCoordinator and the six agents buildKnowledgeGraph registers.  An   *)
(* agent is [name, priority]; a finding's data is a token naming its type,  *)
(* except the historian's, an array of [file, commits].                     *)

NoReturn == [pending |-> TRUE]

Agent(n, p) == [name |-> n, priority |-> p]

AllAgents ==
    { Agent("archaeologist", 1), Agent("detective", 2), Agent("risk-assessor", 3),
      Agent("historian", 4), Agent("translator", 5), Agent("architect", 6) }

\* the arrays analyzeGitHistory can return
FileHistory(f, c) == [file |-> f, commits |-> c]

Histories ==
    { <<FileHistory("a.ts", 1), FileHistory("ba.ts", 3)>>,
      <<FileHistory("ba.ts", 3), FileHistory("a.ts", 1)>> }

\* agents.sort((a, b) => a.priority - b.priority) after a push: the array was
\* sorted before, so the new agent goes behind those of no greater priority
InsertAtEnd(as, a) == Append(as, a)

RECURSIVE InsertByPriority(_, _)
InsertByPriority(as, a) ==
    IF as = <<>> THEN <<a>>
    ELSE IF Head(as).priority <= a.priority
         THEN <<Head(as)>> \o InsertByPriority(Tail(as), a)
         ELSE <<a>> \o as

\* history.sort((a, b) => b.commits - a.commits), stable
RECURSIVE InsertByCommits(_, _)
InsertByCommits(hs, h) ==
    IF hs = <<>> THEN <<h>>
    ELSE IF Head(hs).commits >= h.commits
         THEN <<Head(hs)>> \o InsertByCommits(Tail(hs), h)
         ELSE <<h>> \o hs

RECURSIVE SortByCommits(_)
SortByCommits(hs) ==
    IF hs = <<>> THEN <<>>
    ELSE InsertByCommits(SortByCommits(SubSeq(hs, 1, Len(hs) - 1)), hs[Len(hs)])

\* the outcome of one explore call: what it left in the KnowledgeBase and how
\* it ended ("stored", "skipped": returned early, "caught": failed inside its
\* own try block, "threw": rejected)
Outcome(st, how) == [storage |-> st, how |-> how]

\* ArchaeologistAgent.explore: the scan may reject; otherwise the metadata is
\* stored
ExploreArchaeologist(st) ==
    { Outcome(st, "threw"), Outcome(KbStore(st, "archaeologist", "WorkspaceMetadata"), "stored") }

\* DetectiveAgent.explore: returns early without the archaeologist's finding;
\* every file read is inside a try block
ExploreDetectiveUnguarded(st) ==
    IF KbGet(st, "archaeologist") = Null THEN {Outcome(st, "threw")}
    ELSE {Outcome(KbStore(st, "detective", "Dependency[]"), "stored")}

ExploreDetective(st) ==
    IF KbGet(st, "archaeologist") = Null THEN {Outcome(st, "skipped")}
    ELSE {Outcome(KbStore(st, "detective", "Dependency[]"), "stored")}

\* RiskAssessorAgent.explore: as the detective
ExploreRiskAssessor(st) ==
    IF KbGet(st, "archaeologist") = Null THEN {Outcome(st, "skipped")}
    ELSE {Outcome(KbStore(st, "risk-assessor", "RiskFinding[]"), "stored")}

\* HistorianAgent.explore: the git analysis and the store are inside one try
\* block; a failure is logged and nothing is stored
ExploreHistorian(st) ==
    {Outcome(st, "caught")} \cup {Outcome(KbStore(st, "historian", h), "stored") : h \in Histories}

\* TranslatorAgent.explore: returns early without an enabled Gemini client
\* or without the historian's finding; otherwise sorts the historian's array
\* in place and stores its documentation
ExploreTranslator(st, geminiEnabled) ==
    IF ~geminiEnabled \/ KbGet(st, "historian") = Null THEN {Outcome(st, "skipped")}
    ELSE {Outcome(KbStore(KbStore(st, "historian", SortByCommits(KbGet(st, "historian"))),
                          "translator", "FileDocumentation[]"), "stored")}

\* ArchitectAgent.explore: findCycles recurses once per file of a dependency
\* path, outside any try block, before the store
ExploreArchitect(st) ==
    IF KbGet(st, "detective") # Null
    THEN { Outcome(st, "threw"), Outcome(KbStore(st, "architect", "ArchitectureInsight[]"), "stored") }
    ELSE { Outcome(KbStore(st, "architect", "ArchitectureInsight[]"), "stored") }

\* agent.explore(workspacePath)
Explore(name, st, geminiEnabled) ==
    CASE name = "archaeologist" -> ExploreArchaeologist(st)
      [] name = "detective"     -> ExploreDetective(st)
      [] name = "risk-assessor" -> ExploreRiskAssessor(st)
      [] name = "historian"     -> ExploreHistorian(st)
      [] name = "translator"    -> ExploreTranslator(st, geminiEnabled)
      [] name = "architect"     -> ExploreArchitect(st)

\* try { await agent.explore(...) } catch (error) { console.error(...) }:
\* the loop goes on after a rejected explore
AfterExploreRethrowing(how) == IF how = "threw" THEN "thrown" ELSE "running"

AfterExplore(how) == "running"

\* coordinator.registerAgent(agent)
RegisterAgent ==
    /\ agPc = "new"
    /\ \E a \in AllAgents :
         /\ a \notin Range(agents)
         /\ agents' = InsertByPriority(agents, a)
         /\ regLog' = Append(regLog, a)
    /\ UNCHANGED <<agPc, agIdx, agLog, agReturn, kgVars, cyVars, qVars, storeVars,
                   parseVars, actVars, kbVars, buildVars>>

\* runAll(workspacePath) is called
RunAllStart ==
    /\ agPc = "new"
    /\ agPc' = "running"
    /\ UNCHANGED <<agents, agIdx, agLog, agReturn, regLog, kgVars, cyVars, qVars, storeVars,
                   parseVars, actVars, kbVars, buildVars>>

\* one iteration of for (const agent of this.agents)
RunAgent ==
    /\ agPc = "running"
    /\ agIdx <= Len(agents)
    /\ \E geminiEnabled \in BOOLEAN :
         \E out \in Explore(agents[agIdx].name, storage, geminiEnabled) :
            /\ storage' = out.storage
            /\ agLog' = Append(agLog, [name |-> agents[agIdx].name, how |-> out.how,
                                       before |-> storage, after |-> out.storage])
            /\ agPc' = AfterExplore(out.how)
            /\ agIdx' = agIdx + 1
    /\ UNCHANGED <<agents, agReturn, regLog, kbLog, kgVars, cyVars, qVars, storeVars,
                   parseVars, actVars, buildVars>>

\* return this.knowledgeBase.getAll()
RunAllReturn ==
    /\ agPc = "running"
    /\ agIdx > Len(agents)
    /\ agPc' = "returned"
    /\ agReturn' = KbGetAll(storage)
    /\ UNCHANGED <<agents, agIdx, agLog, regLog, kgVars, cyVars, qVars, storeVars,
                   parseVars, actVars, kbVars, buildVars>>

\* new AgentCoordinator(knowledgeBase)
InitAgents ==
    /\ agPc = "new"
    /\ agents = <<>>
    /\ agIdx = 1
    /\ agLog = <<>>
    /\ agReturn = NoReturn
    /\ regLog = <<>>

NextAgents == RegisterAgent \/ RunAllStart \/ RunAgent \/ RunAllReturn

----------------------------------------------------------------------------
(* buildKnowledgeGraph, step 3 and 4: the graph is filled from the findings *)
(* and the extracted functions.  A function id is file + "::" + name.       *)

\* most functions the extractors return in one build
MaxFuncs == 3

\* metadata.files, in the order the scan returned them
BuildFileOrders == {<<"a.ts", "ba.ts">>, <<"ba.ts", "a.ts">>}

\* the detective's dependencies: resolveJSModule does not check that the
\* resolved path exists, so a target may be no file of the workspace
DependencyLists ==
    { <<>>,
      <<Edge("a.ts", "ba.ts", "IMPORTS")>>,
      <<Edge("a.ts", "zz.ts", "IMPORTS"), Edge("a.ts", "ba.ts", "IMPORTS"),
        Edge("a.ts", "ba.ts", "IMPORTS")>>,
      <<Edge("ba.ts", "zz.ts", "IMPORTS")>> }

BuildNames == {"f", "foo"}

\* the call lists (func.calls) of an extracted function
CallLists == {<<>>, <<"f">>, <<"foo">>, <<"h">>, <<"f", "foo">>, <<"foo", "f">>, <<"h", "f">>}

BuildFolders == <<"src">>

FolderNode(p) == [id |-> p, type |-> "Folder", name |-> Undefined, file |-> Undefined, path |-> p]

FunctionId(file, name) ==
    CASE file = "a.ts" /\ name = "f"    -> "a.ts::f"
      [] file = "a.ts" /\ name = "foo"  -> "a.ts::foo"
      [] file = "ba.ts" /\ name = "f"   -> "ba.ts::f"
      [] file = "ba.ts" /\ name = "foo" -> "ba.ts::foo"

\* String.prototype.includes on the names of the model: call occurs at the
\* start of name
NamePrefixes == {<<"f", "foo">>}

NameStartsWith(name, call) == name = call \/ <<call, name>> \in NamePrefixes

\* f.id.includes(`::${call}`): the id holds "::" once, right before the name
IdIncludesCall(n, call) == NameStartsWith(n.name, call)

\* the filter of the call resolution
CallMatches(n, call) == n.name = call \/ IdIncludesCall(n, call)

\* a call is linked whether or not a function matches it
LinkTargetUnchecked(calledFunctions, call) ==
    IF calledFunctions # <<>> THEN calledFunctions[1].id ELSE call

\* if (calledFunctions.length > 0): the first match, else no edge
LinkTarget(calledFunctions, call) ==
    IF calledFunctions # <<>> THEN calledFunctions[1].id ELSE Undefined

\* for (const call of func.calls): link to the first match, if any
RECURSIVE ResolveCalls(_, _, _, _)
ResolveCalls(ns, from, calls, acc) ==
    IF calls = <<>> THEN acc
    ELSE LET call == Head(calls)
             calledFunctions == SelectSeq(GetNodesByType(ns, "Function"),
                                          LAMBDA n : CallMatches(n, call))
             to == LinkTarget(calledFunctions, call)
             entry == [from |-> from, call |-> call, known |-> Len(ns), to |-> to]
         IN  ResolveCalls(ns, from, Tail(calls),
                [es  |-> IF to # Undefined
                         THEN AddEdgeTo(acc.es, Edge(from, to, "CALLS")) ELSE acc.es,
                 log |-> Append(acc.log, entry)])

\* for (const file of metadata.files) / for (const dep of dependencies)
RECURSIVE AddFileNodes(_, _)
AddFileNodes(ns, files) ==
    IF files = <<>> THEN ns
    ELSE AddFileNodes(AddNodeTo(ns, FileNode(Head(files))), Tail(files))

RECURSIVE AddEdgesTo(_, _)
AddEdgesTo(es, ds) ==
    IF ds = <<>> THEN es
    ELSE AddEdgesTo(AddEdgeTo(es, Edge(Head(ds).from, Head(ds).to, "IMPORTS")), Tail(ds))

\* step 3: the File and Folder nodes of the metadata and the IMPORTS edges of
\* the dependencies; a finding is None when absent, Some(value) otherwise.
\* Without metadata step 4 has no file to extract from and the function
\* returns.
PopulateFromFindings(metadata, dependencies) ==
    /\ bPc = "start"
    /\ nodes' = IF metadata # None
                THEN AddNodeTo(AddFileNodes(nodes, metadata[1]), FolderNode(BuildFolders[1]))
                ELSE nodes
    /\ edges' = IF dependencies # None THEN AddEdgesTo(edges, dependencies[1]) ELSE edges
    /\ bPc' = IF metadata # None THEN "functions" ELSE "done"
    /\ phase' = IF metadata # None THEN "building" ELSE "ready"

\* the detective stores dependencies only when the archaeologist's metadata
\* is there
BuildFromFindings ==
    /\ \E metadata \in {Some(fo) : fo \in BuildFileOrders} \cup {None},
          dependencies \in {Some(d) : d \in DependencyLists} \cup {None} :
         /\ (metadata = None) => (dependencies = None)
         /\ PopulateFromFindings(metadata, dependencies)
    /\ UNCHANGED <<bLog, bFailed, cyVars, qVars, storeVars, parseVars, actVars, kbVars, agVars>>

\* metadata.files as the File nodes hold it
FileOrder(ns) == MapSeq(GetNodesByType(ns, "File"), LAMBDA n : n.path)

\* the files whose functions may still come: the file loop does not go back
FilesFrom(ns) ==
    LET fns == GetNodesByType(ns, "Function")
        fo == FileOrder(ns)
    IN  IF fns = <<>> THEN Range(fo)
        ELSE {fo[i] : i \in {j \in 1..Len(fo) : j >= IndexOf(fo, fns[Len(fns)].file)}}

\* ... nor to a file whose extraction threw, nor before it
FilesAfterFailed(ns, failed) ==
    LET fo == FileOrder(ns) IN
    {f \in Range(fo) : \A g \in failed : IndexOf(fo, g) < IndexOf(fo, f)}

\* step 4, one function of jsExtractor.extract(file): its node, its DEFINES
\* edge and the CALLS edges of its calls
BuildExtractFunction ==
    /\ bPc = "functions"
    /\ Len(GetNodesByType(nodes, "Function")) < MaxFuncs
    /\ \E file \in FilesFrom(nodes) \cap FilesAfterFailed(nodes, bFailed),
          name \in BuildNames, calls \in CallLists :
         LET id == FunctionId(file, name)
             ns1 == AddNodeTo(nodes, FunctionNode(id, name, file))
             es1 == AddEdgeTo(edges, Edge(file, id, "DEFINES"))
             out == ResolveCalls(ns1, id, calls, [es |-> es1, log |-> bLog])
         IN  /\ ~HasNode(nodes, id)
             /\ nodes' = ns1
             /\ edges' = out.es
             /\ bLog' = out.log
    /\ UNCHANGED <<phase, bPc, bFailed, cyVars, qVars, storeVars, parseVars, actVars, kbVars, agVars>>

\* step 4, extract(file) throws: the catch of the file loop logs it and the
\* loop goes on with the next file
BuildExtractFails ==
    /\ bPc = "functions"
    /\ \E file \in FilesFrom(nodes) \cap FilesAfterFailed(nodes, bFailed) :
         /\ \A n \in Range(GetNodesByType(nodes, "Function")) : n.file # file
         /\ bFailed' = bFailed \cup {file}
    /\ UNCHANGED <<kgVars, bPc, bLog, cyVars, qVars, storeVars, parseVars, actVars, kbVars, agVars>>

\* the file loop ends; buildKnowledgeGraph returns
BuildDone ==
    /\ bPc = "functions"
    /\ bPc' = "done"
    /\ phase' = "ready"
    /\ UNCHANGED <<nodes, edges, bLog, bFailed, cyVars, qVars, storeVars, parseVars, actVars,
                   kbVars, agVars>>

InitBuild ==
    /\ bPc = "start"
    /\ bLog = <<>>
    /\ bFailed = {}

NextBuild == BuildFromFindings \/ BuildExtractFunction \/ BuildExtractFails \/ BuildDone

\* most functions extracted before the queries of SpecBuildQuery
MaxQueryFuncs == 1

BuildQueryExtract ==
    /\ Len(GetNodesByType(nodes, "Function")) < MaxQueryFuncs
    /\ BuildExtractFunction

\* runQuery on the graph the build pass left, with a DEPENDENCIES question
DependenciesQuery ==
    /\ RunQueryParsed
    /\ Parse(question').intent = "DEPENDENCIES"

NextBuildQuery ==
    \/ BuildFromFindings
    \/ BuildQueryExtract
    \/ BuildExtractFails
    \/ BuildDone
    \/ DependenciesQuery
    \/ RunQueryReturn

----------------------------------------------------------------------------
(* Specifications *)

InitCycles ==
    /\ cyPc = "idle"
    /\ deps = <<>>
    /\ depGraph = EmptyDepGraph
    /\ cycles = <<>>
    /\ visited = {}
    /\ recursionStack = {}
    /\ frames = <<>>
    /\ keyIdx = 1
    /\ entered = [n \in DepIds |-> 0]
    /\ backHits = 0
    /\ steps = 0

\* graph = new KnowledgeGraph()
InitGraph ==
    /\ phase = "empty"
    /\ nodes = <<>>
    /\ edges = <<>>

InitQuery ==
    /\ qPc = "idle"
    /\ question = <<>>
    /\ plan = NoPlan
    /\ result = NoResult
    /\ base = NoResult
    /\ explainer = "none"
    /\ thrown = FALSE
    /\ clientEnabled = "none"

----------------------------------------------------------------------------
(* The extension: activate, buildKnowledgeGraph from its first line to its  *)
(* return, the openView command and the runQuery messages of the panels.    *)
(* The build pass runs as one chain of awaits; a command or a message is    *)
(* handled whenever that chain is waiting.                                  *)

\* most openView commands refused
MaxViews == 2

\* most webview panels
MaxPanels == 2

\* most runQuery calls in flight at once
MaxInflight == 2

\* the agents in the order buildKnowledgeGraph registers them
BuiltInAgents ==
    << Agent("archaeologist", 1), Agent("detective", 2), Agent("risk-assessor", 3),
       Agent("historian", 4), Agent("translator", 5), Agent("architect", 6) >>

RECURSIVE RegisterAll(_, _)
RegisterAll(as, new) ==
    IF new = <<>> THEN as
    ELSE RegisterAll(InsertByPriority(as, Head(new)), Tail(new))

\* activate: graph = new KnowledgeGraph(), the command is registered, the
\* build is handed to withProgress
Activate ==
    /\ xPc = "inactive"
    /\ xPc' = "activated"
    /\ UNCHANGED <<wsFolder, orchestrator, panels, refused, inflight, kgVars, cyVars, qVars,
                   storeVars, parseVars, kbVars, agVars, buildVars>>

\* buildKnowledgeGraph up to runAll: without a workspace folder it throws and
\* the catch of activate reports the failure; with one the six agents are
\* registered
BuildStart ==
    /\ xPc = "activated"
    /\ \E folder \in BOOLEAN :
         /\ wsFolder' = IF folder THEN "open" ELSE "none"
         /\ xPc' = IF folder THEN "building" ELSE "failed"
         /\ agents' = IF folder THEN RegisterAll(agents, BuiltInAgents) ELSE agents
         /\ regLog' = IF folder THEN regLog \o BuiltInAgents ELSE regLog
    /\ UNCHANGED <<orchestrator, panels, refused, inflight, agPc, agIdx, agLog, agReturn,
                   kgVars, cyVars, qVars, storeVars, parseVars, kbVars, buildVars>>

\* await coordinator.runAll(workspacePath)
BuildRunAllStart == xPc = "building" /\ RunAllStart

BuildRunAgent == xPc = "building" /\ RunAgent

BuildRunAllReturn == xPc = "building" /\ RunAllReturn

\* a finding of the KnowledgeBase as step 3 reads it: absent, or any value
\* of the set the agent can have stored
FindingFrom(st, name, values) ==
    IF KbGet(st, name) = Null THEN {None} ELSE {Some(v) : v \in values}

\* step 3 on the findings runAll left
BuildPopulate ==
    /\ wsFolder = "open"
    /\ agPc = "returned"
    /\ \E metadata \in FindingFrom(storage, "archaeologist", BuildFileOrders),
          dependencies \in FindingFrom(storage, "detective", DependencyLists) :
         PopulateFromFindings(metadata, dependencies)
    /\ UNCHANGED <<bLog, bFailed, cyVars, qVars, storeVars, parseVars, actVars, kbVars, agVars>>

\* step 4; the functions extracted here call nothing, the CALLS edges being
\* the matter of SpecBuild
BuildExtract ==
    /\ wsFolder = "open"
    /\ BuildQueryExtract
    /\ bLog' = bLog

\* the catch of the file loop ends the build
BuildExtractUncaught ==
    /\ wsFolder = "open"
    /\ bPc = "functions"
    /\ xPc' = "failed"
    /\ UNCHANGED <<wsFolder, orchestrator, panels, refused, inflight, kgVars, cyVars, qVars,
                   storeVars, parseVars, kbVars, agVars, buildVars>>

BuildExtractCaught == wsFolder = "open" /\ BuildExtractFails

BuildReturn == wsFolder = "open" /\ BuildDone

\* the orchestrator is assigned while the build is still running
CreateOrchestratorEarly ==
    /\ xPc = "building"
    /\ agPc = "returned"
    /\ orchestrator' = TRUE
    /\ panels' = Append(panels, TRUE)
    /\ xPc' = "ready"
    /\ UNCHANGED <<wsFolder, refused, inflight, kgVars, cyVars, qVars, storeVars, parseVars,
                   kbVars, agVars, buildVars>>

\* agentData = await buildKnowledgeGraph(...) has its value:
\* orchestrator = new QueryOrchestrator(graph, geminiClient) and the first panel
CreateOrchestrator ==
    /\ xPc = "building"
    /\ bPc = "done"
    /\ orchestrator' = TRUE
    /\ panels' = Append(panels, TRUE)
    /\ xPc' = "ready"
    /\ UNCHANGED <<wsFolder, refused, inflight, kgVars, cyVars, qVars, storeVars, parseVars,
                   kbVars, agVars, buildVars>>

\* the openView command: graph is set since activate; without orchestrator a
\* warning and no panel
OpenView ==
    /\ xPc # "inactive"
    /\ IF ~orchestrator
       THEN /\ refused < MaxViews
            /\ refused' = refused + 1
            /\ UNCHANGED panels
       ELSE /\ Len(panels) < MaxPanels
            /\ panels' = Append(panels, orchestrator)
            /\ UNCHANGED refused
    /\ UNCHANGED <<xPc, wsFolder, orchestrator, inflight, kgVars, cyVars, qVars, storeVars,
                   parseVars, kbVars, agVars, buildVars>>

\* a runQuery message of a panel: it throws at once if the panel was given no
\* orchestrator, else orchestrator.runQuery(question) is called and awaited
PanelRunQuery ==
    /\ \E i \in 1..Len(panels) : panels[i]
    /\ Len(inflight) < MaxInflight
    /\ inflight' = Append(inflight, [nodes |-> nodes, edges |-> edges])
    /\ UNCHANGED <<xPc, wsFolder, orchestrator, panels, refused, kgVars, cyVars, qVars,
                   storeVars, parseVars, kbVars, agVars, buildVars>>

\* one of the calls in flight settles and its result is posted
PanelQuerySettled ==
    /\ \E i \in 1..Len(inflight) :
         inflight' = SubSeq(inflight, 1, i - 1) \o SubSeq(inflight, i + 1, Len(inflight))
    /\ UNCHANGED <<xPc, wsFolder, orchestrator, panels, refused, kgVars, cyVars, qVars,
                   storeVars, parseVars, kbVars, agVars, buildVars>>

InitActivate ==
    /\ xPc = "inactive"
    /\ wsFolder = "unread"
    /\ orchestrator = FALSE
    /\ panels = <<>>
    /\ refused = 0
    /\ inflight = <<>>

NextBuildPass ==
    \/ Activate
    \/ BuildStart
    \/ BuildRunAllStart
    \/ BuildRunAgent
    \/ BuildRunAllReturn
    \/ BuildPopulate
    \/ BuildExtract
    \/ BuildExtractCaught
    \/ BuildReturn
    \/ CreateOrchestrator

NextActivate ==
    \/ NextBuildPass
    \/ OpenView
    \/ PanelRunQuery
    \/ PanelQuerySettled

Init ==
    /\ InitCycles /\ InitGraph /\ InitQuery /\ InitStore /\ InitParse /\ InitKB
    /\ InitAgents /\ InitBuild /\ InitActivate

Next ==
    \/ PopulateNodes
    \/ AddEdge
    \/ FinishBuild
    \/ RunQueryParsed
    \/ RunQueryPlanned
    \/ RunQueryGeneral
    \/ RunQuerySkipEnrich
    \/ RunQueryEnrich
    \/ RunQueryReturn

Spec == Init /\ [][Next]_vars

NextCycles ==
    \/ FindCyclesStart
    \/ FindCyclesNextKey
    \/ FindCyclesSkipKey
    \/ VisitEnterNeighbor
    \/ VisitEmitCycle
    \/ VisitSkipNeighbor
    \/ VisitReturn
    \/ FindCyclesReturn
    \/ FindCyclesReset

SpecCycles == Init /\ [][NextCycles]_vars

SpecStore == Init /\ [][NextStore]_vars

SpecParse == Init /\ [][NextParse]_vars

SpecKB == Init /\ [][NextKB]_vars

SpecBuild == Init /\ [][NextBuild]_vars

SpecUsage == Init /\ [][NextUsage]_vars

SpecBuildQuery == Init /\ [][NextBuildQuery]_vars

SpecAgents == Init /\ [][NextAgents]_vars

SpecActivate == Init /\ [][NextActivate]_vars

\* every await of the build pass settles
SpecActivateLive == Init /\ [][NextActivate]_vars /\ WF_vars(NextBuildPass)

----------------------------------------------------------------------------
(* Reachability in the directed graph of a set of <<from, to>> pairs,       *)
(* computed independently of the DFS                                        *)

PairIds(S) == {p[1] : p \in S} \cup {p[2] : p \in S}

Successors(S, X) == {p[2] : p \in {q \in S : q[1] \in X}}

RECURSIVE ReachClosure(_, _)
ReachClosure(S, R) ==
    LET R1 == R \cup Successors(S, R)
    IN  IF R1 = R THEN R ELSE ReachClosure(S, R1)

\* the ids reachable from n by a non-empty path
ReachableFrom(S, n) == ReachClosure(S, Successors(S, {n}))

HasDirectedCycle(S) == \E n \in PairIds(S) : n \in ReachableFrom(S, n)

\* the list is one simple directed cycle: each edge once, every id has one
\* successor and one predecessor, and every id reaches every id
IsSimpleCycleList(d) ==
    LET S == Range(d) IN
    /\ d # <<>>
    /\ NoDuplicates(d)
    /\ \A n \in PairIds(S) :
         /\ Cardinality({p \in S : p[1] = n}) = 1
         /\ Cardinality({p \in S : p[2] = n}) = 1
         /\ ReachableFrom(S, n) = PairIds(S)

\* c is a closed walk over the pairs of S that passes every id of S once
IsClosedCycleOf(c, S) ==
    /\ Len(c) = Cardinality(PairIds(S)) + 1
    /\ c[1] = c[Len(c)]
    /\ \A k \in 1..(Len(c) - 1) : <<c[k], c[k+1]>> \in S
    /\ {c[k] : k \in 1..(Len(c) - 1)} = PairIds(S)

\* K + E + N + 1: key-loop iterations, adjacency entries examined, returns of
\* visit, and the final return
StepBound == Len(depGraph.keys) + Len(deps) + Cardinality(PairIds(Range(deps))) + 1

----------------------------------------------------------------------------
(* The call graph, computed independently of the traversal *)

CallPairs(es) == {<<e.from, e.to>> : e \in Range(OfType(es, "CALLS"))}

\* the ids g # f from which f is reachable by a non-empty path of CALLS edges
TransitiveCallers(es, f) ==
    {g \in PairIds(CallPairs(es)) \ {f} : f \in ReachableFrom(CallPairs(es), g)}

\* the least number of CALLS edges on a path from g to f; -1 when there is none
RECURSIVE LevelOf(_, _, _, _, _)
LevelOf(pairs, frontier, seen, k, g) ==
    IF g \in frontier THEN k
    ELSE IF frontier = {} THEN -1
    ELSE LET next == {p[1] : p \in {q \in pairs : q[2] \in frontier}} \ seen
         IN  LevelOf(pairs, next, seen \cup next, k + 1, g)

CallDistance(es, f, g) == LevelOf(CallPairs(es), {f}, {f}, 0, g)

MaxOf(S) == IF S = {} THEN 0 ELSE CHOOSE m \in S : \A x \in S : x <= m

FunctionIds(ns) == {n.id : n \in Range(GetNodesByType(ns, "Function"))}

CountEdges(es, P(_)) == Cardinality({k \in 1..Len(es) : P(es[k])})

\* the result of a blast-radius query that found its function
IsBlastAnswer(r) == r.intent = "blast_radius" /\ "functionId" \in DOMAIN r.metadata

ChainAB == Edge("a.ts::f", "a.ts::g", "CALLS")

ChainBC == Edge("a.ts::g", "ba.ts::f", "CALLS")

ChainCA == Edge("ba.ts::f", "a.ts::f", "CALLS")

----------------------------------------------------------------------------
(* Claims about runQuery and the graph queries, checked under Spec *)

\* C1: when a question reaches the enrichment step (planner intents
\* blast_radius, central_functions, important_files, find_function), the
\* returned intent, files, functions and metadata are those of the graph
\* query whether the explainer returns a text, returns nothing, throws or is
\* not asked; only contextPreview may differ, and only after a text; runQuery
\* does not throw.
C1_EnrichmentAdditive ==
    (qPc = "done" /\ plan.intent \in GraphIntents) =>
        LET graphAnswer == PlanResult(nodes, edges, plan) IN
        /\ ~thrown
        /\ result.intent = graphAnswer.intent
        /\ result.files = graphAnswer.files
        /\ result.functions = graphAnswer.functions
        /\ result.metadata = graphAnswer.metadata
        /\ [result EXCEPT !.contextPreview = None] = [base EXCEPT !.contextPreview = None]
        /\ (result.contextPreview # base.contextPreview => explainer = "text")

C1_Witness ==
    /\ qPc = "done"
    /\ explainer = "throw"
    /\ IsBlastAnswer(result)
    /\ OrEmpty(result.functions) # <<>>
    /\ result.files # <<>>

\* C2: for every graph (CALLS cycles, self-loops and duplicate CALLS edges
\* included) and every existing function id f, functionBlastRadius(f) ends
\* within one dequeue per enqueued id, and affectedFunctions holds no id twice
\* and does not hold f; so does the functions list of a blast_radius answer.
C2_BlastRadiusNoRepeats ==
    /\ phase = "building" =>
         \A f \in FunctionIds(nodes) :
            LET br == FunctionBlastRadius(nodes, edges, f) IN
            /\ ~br.exhausted
            /\ NoDuplicates(br.affectedFunctions)
            /\ f \notin Range(br.affectedFunctions)
    /\ IsBlastAnswer(result) =>
         /\ NoDuplicates(OrEmpty(result.functions))
         /\ result.metadata.functionId \notin Range(OrEmpty(result.functions))
         /\ result.metadata.affectedCount = Cardinality(Range(OrEmpty(result.functions)))

C2_Witness ==
    /\ qPc = "done"
    /\ IsBlastAnswer(result)
    /\ edges = <<ChainAB, ChainBC, ChainCA>>
    /\ result.metadata.functionId = "a.ts::f"
    /\ result.functions = Some(<<"ba.ts::f", "a.ts::g">>)

\* the traversal's answer for f is the transitive callers of f, nearest first
IsTransitiveCallerList(es, f, affected, depth) ==
    /\ Range(affected) = TransitiveCallers(es, f)
    /\ \A i, j \in 1..Len(affected) :
         i < j => CallDistance(es, f, affected[i]) <= CallDistance(es, f, affected[j])
    /\ depth = MaxOf({0} \cup {CallDistance(es, f, g) : g \in TransitiveCallers(es, f)})

\* C3: functionBlastRadius(f) follows only CALLS edges, against their
\* direction: affectedFunctions is exactly the set of ids g # f from which f
\* is reachable by CALLS edges, listed by non-decreasing distance to f
\* (breadth-first order), and depth is the largest distance; IMPORTS and
\* DEFINES edges add nothing.
C3_BlastRadiusTransitiveCallers ==
    /\ phase = "building" =>
         \A f \in FunctionIds(nodes) :
            LET br == FunctionBlastRadius(nodes, edges, f) IN
            IsTransitiveCallerList(edges, f, br.affectedFunctions, br.depth)
    /\ IsBlastAnswer(result) =>
         IsTransitiveCallerList(edges, result.metadata.functionId,
                                OrEmpty(result.functions), result.metadata.depth)

C3_Witness ==
    /\ qPc = "done"
    /\ IsBlastAnswer(result)
    /\ edges = <<Edge("ba.ts", "ba.ts::f", "DEFINES"), ChainBC,
                 Edge("a.ts", "ba.ts", "IMPORTS")>>
    /\ result.metadata.functionId = "ba.ts::f"
    /\ result.functions = Some(<<"a.ts::g">>)
    /\ result.metadata.depth = 1

\* C4 as stated: on the graph A -> B -> C (A = a.ts::f, B = a.ts::g,
\* C = ba.ts::f), the blast radius of A is [B, C] with depth 2.
C4_Original ==
    (IsBlastAnswer(result) /\ edges = <<ChainAB, ChainBC>>
        /\ result.metadata.functionId = "a.ts::f")
    => (result.functions = Some(<<"a.ts::g", "ba.ts::f">>) /\ result.metadata.depth = 2)

\* C4, amended: on the graph A -> B -> C the blast radius of C is [B, A] with
\* depth 2, and the blast radius of A, which nothing calls, is empty with
\* depth 0.
C4_ChainBlastRadius ==
    (IsBlastAnswer(result) /\ edges = <<ChainAB, ChainBC>>) =>
        /\ result.metadata.functionId = "ba.ts::f" =>
             (result.functions = Some(<<"a.ts::g", "a.ts::f">>) /\ result.metadata.depth = 2)
        /\ result.metadata.functionId = "a.ts::f" =>
             (result.functions = Some(<<>>) /\ result.metadata.depth = 0)

C4_Witness ==
    /\ qPc = "done"
    /\ IsBlastAnswer(result)
    /\ edges = <<ChainAB, ChainBC>>
    /\ result.metadata.functionId = "ba.ts::f"
    /\ result.metadata.affectedCount = 2

\* C5: functionCentrality() lists every Function node exactly once with
\* centrality = incoming CALLS edges + outgoing CALLS edges (other edge types
\* not counted), sorted by non-increasing centrality, equal centralities by
\* ascending id; the graph payload computes the same centrality.
C5_CentralitySorted ==
    result.intent = "central_functions" =>
        LET m == result.metadata.functions IN
        /\ Len(m) = Cardinality(FunctionIds(nodes))
        /\ {m[i].id : i \in 1..Len(m)} = FunctionIds(nodes)
        /\ OrEmpty(result.functions) = [i \in 1..Len(m) |-> m[i].id]
        /\ \A i \in 1..Len(m) :
             /\ m[i].inDegree =
                  CountEdges(edges, LAMBDA e : e.type = "CALLS" /\ e.to = m[i].id)
             /\ m[i].outDegree =
                  CountEdges(edges, LAMBDA e : e.type = "CALLS" /\ e.from = m[i].id)
             /\ m[i].centrality = m[i].inDegree + m[i].outDegree
             /\ m[i].centrality = PayloadCentrality(edges, m[i].id)
        /\ \A i, j \in 1..Len(m) :
             i < j => \/ m[i].centrality > m[j].centrality
                      \/ (m[i].centrality = m[j].centrality /\ IdLess(m[i].id, m[j].id))

C5_Witness ==
    /\ qPc = "done"
    /\ result.intent = "central_functions"
    /\ nodes[Len(nodes)].id = "a.ts::f"
    /\ edges = <<ChainAB, Edge("a.ts::f", "a.ts::f", "CALLS"), Edge("ba.ts", "ba.ts::f", "DEFINES")>>
    /\ result.functions = Some(<<"a.ts::f", "a.ts::g", "ba.ts::f">>)

\* C6: fileImportance() counts a file's importers by distinct source file:
\* adding a second IMPORTS edge with the from and to of an existing one
\* changes neither any importance value nor the order of the list (the
\* answer to an important_files query stays the same).
C6_DuplicateImportIgnored ==
    [][(/\ phase = "building"
        /\ Len(edges') = Len(edges) + 1
        /\ edges'[Len(edges')].type = "IMPORTS"
        /\ edges'[Len(edges')] \in Range(edges))
       => /\ FileImportance(nodes', edges') = FileImportance(nodes, edges)
          /\ HandleImportantFiles(nodes', edges') = HandleImportantFiles(nodes, edges)]_vars

C6_Witness ==
    /\ qPc = "done"
    /\ result.intent = "important_files"
    /\ edges = <<Edge("ba.ts", "a.ts", "IMPORTS"), Edge("a.ts", "ba.ts", "IMPORTS"),
                 Edge("a.ts", "ba.ts", "IMPORTS")>>
    /\ result.files = <<"a.ts", "ba.ts">>

----------------------------------------------------------------------------
(* Claims about findCycles, checked under SpecCycles *)

\* C7: when the dependency list is one simple directed cycle (in any list
\* order), the result of findCycles contains that cycle as a closed id
\* sequence: [A, B, C, A] or a rotation of it.
C7_SimpleCycleReported ==
    (cyPc = "done" /\ IsSimpleCycleList(deps))
        => \E i \in 1..Len(cycles) : IsClosedCycleOf(cycles[i], Range(deps))

C7_Witness ==
    /\ cyPc = "done"
    /\ deps = << <<"B", "C">>, <<"C", "A">>, <<"A", "B">> >>
    /\ cycles = << <<"B", "C", "A", "B">> >>

\* C8: findCycles returns the empty sequence if and only if the directed
\* graph of the dependency list has no cycle (a self-import counts as one).
C8_EmptyIffAcyclic ==
    cyPc = "done" => ((cycles = <<>>) <=> ~HasDirectedCycle(Range(deps)))

C8_Witness ==
    /\ cyPc = "done"
    /\ deps = << <<"A", "B">>, <<"A", "C">>, <<"B", "C">> >>
    /\ cycles = <<>>

\* C9: findCycles terminates: visit is entered at most once per id, the
\* number of steps is bounded by the size of the input, a step is possible
\* until it returns, and the recursion stack is empty when it returns.
C9_TerminatesOnceEach ==
    /\ \A n \in DepIds : entered[n] <= 1
    /\ cyPc \in {"loop", "done"} => steps <= StepBound
    /\ cyPc = "loop" => ENABLED FindCyclesStep
    /\ cyPc = "done" => (recursionStack = {} /\ frames = <<>>)

C9_Witness ==
    /\ cyPc = "done"
    /\ HasDirectedCycle(Range(deps))
    /\ Len(deps) = MaxDeps
    /\ \A n \in DepIds : entered[n] = 1

\* C10: findCycles does not deduplicate: whenever the neighbour examined is
\* on the recursion stack, one cycle is appended to the result, also when an
\* equal id sequence is already in it.
C10_NoDeduplication ==
    [][(/\ cyPc = "loop" /\ frames # <<>>
        /\ Top.idx <= Len(Neighbors(depGraph, Top.node))
        /\ Neighbors(depGraph, Top.node)[Top.idx] \in recursionStack
        /\ cyPc' = "loop")
       => /\ Len(cycles') = Len(cycles) + 1
          /\ SubSeq(cycles', 1, Len(cycles)) = cycles]_vars

C10_Witness ==
    /\ cyPc = "done"
    /\ \E i, j \in 1..Len(cycles) : i < j /\ cycles[i] = cycles[j]

----------------------------------------------------------------------------
(* Claims about the KnowledgeGraph store, checked under SpecStore *)

\* the last argument of addNode with the id of n
LastAdded(id) ==
    addLog[CHOOSE i \in 1..Len(addLog) :
             addLog[i].id = id /\ \A j \in (i + 1)..Len(addLog) : addLog[j].id # id]

StoreTypes == {"File", "Folder", "Function"}

\* C11: after any sequence of addNode/addEdge calls on an empty graph,
\* getNodesByType(T) holds exactly the ids inserted with type T, each once, in
\* the order of their first insertion, each with the data of its last
\* insertion; edges and nodes of other types do not change the sequence.
C11_NodesByTypeInsertionOrder ==
    \A t \in StoreTypes :
        LET got == GetNodesByType(nodes, t)
            ids == Dedupe(MapSeq(SelectSeq(addLog, LAMBDA n : n.type = t), LAMBDA n : n.id))
        IN  /\ MapSeq(got, LAMBDA n : n.id) = ids
            /\ \A i \in 1..Len(got) : got[i] = LastAdded(got[i].id)

C11_Witness ==
    /\ MapSeq(addLog, LAMBDA n : n.id) = <<"a.ts", "a.ts::f", "ba.ts", "a.ts">>
    /\ addLog[1] # addLog[4]
    /\ Len(edges) = 2
    /\ MapSeq(GetNodesByType(nodes, "File"), LAMBDA n : n.path) = <<"src/a.ts", "ba.ts">>

----------------------------------------------------------------------------
(* Claims about QueryParser.parse, checked under SpecParse *)

\* C12: parse("dependencies of foo.ts") yields DEPENDENCIES with target
\* 'foo.ts', parse("who calls computeTotal") yields USAGE with target
\* 'computeTotal', and parse("hello world") yields null.
C12_ParserExamples ==
    /\ parseIn = <<"dependencies", "of", "foo.ts">>
         => parsed = ParsedQuery("DEPENDENCIES", "foo.ts")
    /\ parseIn = <<"who", "calls", "computeTotal">>
         => parsed = ParsedQuery("USAGE", "computeTotal")
    /\ parseIn = <<"hello", "world">> => parsed = NoParse

IntentOrder == <<"DEPENDENCIES", "USAGE", "HISTORY", "RISKS", "EXPLAIN">>

\* what the pattern of the k-th intent captures in s, Undefined when it does not match
IntentMatch(k, s) ==
    CASE k = 1 -> DepMatch(s)
      [] k = 2 -> UsageMatch(s)
      [] k = 3 -> HistoryMatch(s)
      [] k = 4 -> RiskMatch(s)
      [] k = 5 -> ExplainMatch(s)

\* the keyword phrases of the k-th intent among the words of the vocabulary
IntentKeywords(k) ==
    CASE k = 1 -> {<<"dependencies">>, <<"imports">>}
      [] k = 2 -> {<<"who", "calls">>}
      [] k = 3 -> {<<"history">>}
      [] k = 4 -> {<<"risks">>}
      [] k = 5 -> {<<"explain">>}

\* a keyword phrase of the k-th intent occurs in s with a word after it
KeywordFollowed(k, s) ==
    \E i \in 1..Len(s), ph \in IntentKeywords(k) :
        /\ i + Len(ph) <= Len(s)
        /\ \A j \in 1..Len(ph) : s[i + j - 1] = ph[j]

\* C13: parse tries DEPENDENCIES, USAGE, HISTORY, RISKS, EXPLAIN in this order
\* and returns the first that matches: the returned intent is the earliest
\* intent whose pattern matches the normalized question (a keyword phrase
\* followed by a word), the target is what that intent's pattern captures,
\* and parse returns null exactly when no pattern matches.
C13_FirstMatchWins ==
    parseIn # <<>> =>
        LET s == Normalize(parseIn)
            matching == {k \in 1..5 : KeywordFollowed(k, s)}
        IN  /\ \A k \in 1..5 : (IntentMatch(k, s) # Undefined) <=> (k \in matching)
            /\ IF matching = {} THEN parsed = NoParse
               ELSE LET k == CHOOSE m \in matching : \A n \in matching : m <= n
                    IN  /\ parsed.intent = IntentOrder[k]
                        /\ parsed.target = IntentMatch(k, s)
                        /\ parsed.target \in Range(s)

C13_Witness ==
    /\ parseIn = <<"risks", "history", "foo.ts">>
    /\ parsed = ParsedQuery("HISTORY", "foo.ts")

----------------------------------------------------------------------------
(* Further claims about runQuery, checked under Spec *)

\* a question is being, or has been, evaluated
InQuery == qPc \in {"enrich", "done"}

\* C14 as stated: whenever parse returns a ParsedQuery, for any of the five
\* intents including EXPLAIN, the result comes from the handler of the parsed
\* intent and QueryPlanner.plan is not invoked.
C14_Original ==
    (InQuery /\ Parse(question) # NoParse) =>
        (plan = NoPlan /\ result.intent = Parse(question).intent)

\* C14, amended: the planner is consulted exactly when the parser found no
\* match or matched EXPLAIN; whenever parse returns DEPENDENCIES, USAGE,
\* HISTORY or RISKS the result is the one the handler of that intent gives
\* for the parsed target and QueryPlanner.plan is not invoked.
C14_PlannerOnlyOnFallThrough ==
    InQuery =>
        LET pq == Parse(question) IN
        /\ (plan = NoPlan) <=> (pq.intent \in {"DEPENDENCIES", "USAGE", "HISTORY", "RISKS"})
        /\ (plan # NoPlan) <=> (pq = NoParse \/ pq.intent = "EXPLAIN")
        /\ pq.intent \in {"DEPENDENCIES", "USAGE", "HISTORY", "RISKS"} =>
             (result.intent = pq.intent /\ result = ParsedResult(nodes, edges, pq))

C14_Witness ==
    /\ qPc = "done"
    /\ question = <<"issues", "with", "a.ts">>
    /\ plan = NoPlan
    /\ result.intent = "RISKS"

\* the function or file the query asks for is not in the graph
AsksForAbsent ==
    LET pq == Parse(question) IN
    \/ /\ plan.intent \in {"blast_radius", "find_function"}
       /\ Truthy(plan.functionName)
       /\ \A i \in 1..Len(nodes) :
            ~(nodes[i].type = "Function" /\ nodes[i].name = plan.functionName)
    \/ /\ pq.intent = "DEPENDENCIES"
       /\ \A i \in 1..Len(nodes) :
            ~(nodes[i].type = "File" /\ EndsWith(nodes[i].path, Basename(pq.target)))
    \/ /\ pq.intent = "USAGE"
       /\ \A i \in 1..Len(nodes) :
            ~(nodes[i].type = "Function" /\ nodes[i].name = pq.target)

\* C15: whenever the function or file a query asks for is absent from the
\* graph (blast_radius, find_function, DEPENDENCIES, USAGE), runQuery returns
\* without throwing a result whose files and functions are both empty
\* sequences and whose metadata.error is set.
C15_NotFoundResult ==
    (InQuery /\ AsksForAbsent) =>
        /\ ~thrown
        /\ result.files = <<>>
        /\ result.functions = Some(<<>>)
        /\ "error" \in DOMAIN result.metadata

\* C16: for every graph and every question, the files sequence of the result
\* runQuery returns holds no path twice, whichever handler produced it.
C16_FilesNoRepeats ==
    InQuery => NoDuplicates(result.files)

C16_Witness ==
    /\ qPc = "done"
    /\ result.intent = "central_functions"
    /\ Len(OrEmpty(result.functions)) = 3
    /\ Len(result.files) = 2

\* C17: query evaluation never mutates the knowledge graph: over every step
\* of runQuery (parser hit, planner dispatch, general fallback, enrichment
\* with a text, nothing or a failure, return) the nodes with their data, the
\* sequence of edges, getNodeCount() and getEdgeCount() stay the same.
C17_QueryKeepsGraph ==
    [][(qPc' # qPc \/ result' # result)
       => /\ nodes' = nodes
          /\ edges' = edges
          /\ GetNodeCount(nodes') = GetNodeCount(nodes)
          /\ GetEdgeCount(edges') = GetEdgeCount(edges)]_vars

C17_Witness ==
    /\ qPc = "done"
    /\ plan.intent = "central_functions"
    /\ explainer = "throw"
    /\ GetNodeCount(nodes) = 5
    /\ edges = <<ChainAB, ChainAB, ChainBC>>

----------------------------------------------------------------------------
(* Claims about the KnowledgeBase, checked under SpecKB *)

\* the calls since the last clear
RECURSIVE SinceClear(_)
SinceClear(log) ==
    IF log = <<>> THEN <<>>
    ELSE IF log[Len(log)].op = "clear" THEN <<>>
    ELSE Append(SinceClear(SubSeq(log, 1, Len(log) - 1)), log[Len(log)])

StoredNames(log) == {SinceClear(log)[i].agent : i \in 1..Len(SinceClear(log))}

\* the data of the most recent store under name since the last clear, or null
LastStored(log, name) ==
    LET calls == SelectSeq(SinceClear(log), LAMBDA c : c.agent = name)
    IN  IF calls = <<>> THEN Null ELSE calls[Len(calls)].data

\* C18: the KnowledgeBase holds at most one finding per agent name, last
\* write wins: after any sequence of store/clear calls get(name) is the data
\* of the most recent store(name, ..) since the last clear, or null; getAll()
\* has exactly one key per name stored since the last clear, with that data;
\* so a store under one name leaves get of every other name as it was.
C18_LastWriteWins ==
    /\ \A n \in KbNames : KbGet(storage, n) = LastStored(kbLog, n)
    /\ DOMAIN KbGetAll(storage) = StoredNames(kbLog)
    /\ \A k \in DOMAIN KbGetAll(storage) : KbGetAll(storage)[k] = LastStored(kbLog, k)
    /\ Len(storage) = Cardinality(StoredNames(kbLog))

C18_Witness ==
    /\ Len(kbLog) = 4
    /\ kbLog[1] = [op |-> "store", agent |-> "detective", data |-> "d1"]
    /\ kbLog[2].op = "clear"
    /\ kbLog[3] = [op |-> "store", agent |-> "historian", data |-> "d1"]
    /\ kbLog[4] = [op |-> "store", agent |-> "historian", data |-> "d2"]
    /\ KbGet(storage, "historian") = "d2"
    /\ KbGet(storage, "detective") = Null

----------------------------------------------------------------------------
(* Claims about the build pass, checked under SpecBuild *)

\* the Function nodes in the graph when the call of log entry c was resolved
KnownFunctions(c) == GetNodesByType(SubSeq(nodes, 1, c.known), "Function")

\* the last component of an id, after the "::" separator
IdSuffix(n) == n.name

\* C19: each extracted call name is resolved among the Function nodes already
\* in the graph by exact match on data.name and, only when no node has that
\* name, by the id suffix after "::"; of several matches the one inserted
\* first gets the CALLS edge; if none matches no CALLS edge is created.
C19_CallResolution ==
    \A i \in 1..Len(bLog) :
        LET c == bLog[i]
            byName == SelectSeq(KnownFunctions(c), LAMBDA n : n.name = c.call)
            bySuffix == SelectSeq(KnownFunctions(c), LAMBDA n : IdSuffix(n) = c.call)
            matches == IF byName # <<>> THEN byName ELSE bySuffix
        IN  /\ c.to = (IF matches = <<>> THEN Undefined ELSE matches[1].id)
            /\ (c.to = Undefined) =>
                 Cardinality({k \in 1..Len(edges) : edges[k].type = "CALLS"
                                                     /\ edges[k].from = c.from})
                   = Cardinality({j \in 1..Len(bLog) : bLog[j].from = c.from
                                                       /\ bLog[j].to # Undefined})

----------------------------------------------------------------------------
(* Claims about AgentCoordinator.runAll, checked under SpecAgents *)

\* the explore calls of this runAll that were rejected
Failed == {i \in 1..Len(agLog) : agLog[i].how = "threw"}

\* the stored finding of a name, Null when there is none
FindingIn(st, name) == KbGet(st, name)

\* C20: if an agent's explore throws during runAll, every agent later in the
\* order is still run, runAll does not throw and returns the KnowledgeBase
\* contents, the findings stored by the other agents are unchanged, and the
\* failed agent's finding is absent unless it had stored one before throwing.
C20_FailureIsolated ==
    (Failed # {}) =>
        /\ agPc # "thrown"
        /\ \A i \in 1..Len(agLog) : agLog[i].name = agents[i].name
        /\ \A i \in 1..(Len(agLog) - 1) : agLog[i + 1].before = agLog[i].after
        /\ \A i \in Failed :
              \A a \in AllAgents :
                 a.name # agLog[i].name =>
                    FindingIn(agLog[i].after, a.name) = FindingIn(agLog[i].before, a.name)
        /\ (agPc = "running") => (agIdx = Len(agLog) + 1 /\ storage = agLog[Len(agLog)].after)
        /\ (agPc = "returned") =>
              /\ Len(agLog) = Len(agents)
              /\ agReturn = KbGetAll(storage)
              /\ storage = agLog[Len(agLog)].after
              /\ \A i \in Failed :
                    (agLog[i].name \in DOMAIN agReturn) <=> KbHas(agLog[i].after, agLog[i].name)

\* runAll returned after the first agent's explore threw, a later agent stored
\* a finding, and the failed agent has none
C20_Witness ==
    /\ agPc = "returned"
    /\ Len(agLog) >= 3
    /\ agLog[1].how = "threw"
    /\ \E j \in 2..Len(agLog) : agLog[j].how = "stored" /\ agLog[j].name \in DOMAIN agReturn
    /\ agLog[1].name \notin DOMAIN agReturn

\* the finding the explore of an agent returns early without
DependsOn(name) ==
    CASE name = "detective"     -> "archaeologist"
      [] name = "risk-assessor" -> "archaeologist"
      [] name = "translator"    -> "historian"
      [] OTHER                  -> Null

\* the explore calls made while the finding they depend on was absent
MissingInput ==
    {i \in 1..Len(agLog) : /\ DependsOn(agLog[i].name) # Null
                           /\ ~KbHas(agLog[i].before, DependsOn(agLog[i].name))}

\* C21: when the finding an agent depends on is absent (detective and
\* risk-assessor without 'archaeologist', translator without 'historian'), its
\* explore stores nothing and does not throw, and the remaining agents of the
\* pipeline still run.
C21_MissingInputNoOp ==
    /\ \A i \in MissingInput :
          /\ agLog[i].how = "skipped"
          /\ agLog[i].after = agLog[i].before
    /\ (MissingInput # {}) =>
          /\ agPc # "thrown"
          /\ \A i \in 1..Len(agLog) : agLog[i].name = agents[i].name
          /\ (agPc = "running") => agIdx = Len(agLog) + 1
          /\ (agPc = "returned") => Len(agLog) = Len(agents)

\* runAll returned; the detective ran without the archaeologist's finding and
\* an agent after it stored its own
C21_Witness ==
    /\ agPc = "returned"
    /\ \E i \in MissingInput :
          /\ agLog[i].name = "detective"
          /\ \E j \in (i + 1)..Len(agLog) : agLog[j].how = "stored"

PriorityOf(name) == (CHOOSE a \in AllAgents : a.name = name).priority

BuiltInOrder ==
    <<"archaeologist", "detective", "risk-assessor", "historian", "translator", "architect">>

\* C24: runAll invokes explore exactly once on every registered agent, one
\* after the other, in non-decreasing priority number whatever the order of
\* the registerAgent calls; with the six built-in agents the order is
\* archaeologist, detective, risk-assessor, historian, translator, architect.
C24_RunOrder ==
    /\ \A i, j \in 1..Len(agLog) :
          i < j => /\ PriorityOf(agLog[i].name) <= PriorityOf(agLog[j].name)
                   /\ agLog[i].name # agLog[j].name
    /\ \A i \in 1..Len(agLog) : agLog[i].name \in {a.name : a \in Range(regLog)}
    /\ \A i \in 1..(Len(agLog) - 1) : agLog[i].after = agLog[i + 1].before
    /\ (agPc = "returned") =>
          /\ Len(agLog) = Len(regLog)
          /\ {agLog[i].name : i \in 1..Len(agLog)} = {a.name : a \in Range(regLog)}
          /\ (Len(regLog) = Cardinality(AllAgents)) =>
                [i \in 1..Len(agLog) |-> agLog[i].name] = BuiltInOrder

\* runAll returned with all six agents, the architect registered first and the
\* archaeologist last
C24_Witness ==
    /\ agPc = "returned"
    /\ Len(regLog) = 6
    /\ regLog[1].name = "architect"
    /\ regLog[6].name = "archaeologist"
    /\ agLog[1].name = "archaeologist"
    /\ agLog[6].name = "architect"

----------------------------------------------------------------------------
(* Claims about queries on the graph of the build pass, under SpecBuildQuery *)

\* the File nodes whose path ends with the base name of the question's target
DepMatches ==
    SelectSeq(GetNodesByType(nodes, "File"),
              LAMBDA n : EndsWith(n.path, Basename(Parse(question).target)))

\* the positions of the outgoing IMPORTS edges of a file
ImportsOf(id) == {k \in 1..Len(edges) : edges[k].from = id /\ edges[k].type = "IMPORTS"}

\* a DEPENDENCIES query has been answered for a file of the graph
DepAnswered == qPc = "done" /\ Parse(question).intent = "DEPENDENCIES" /\ DepMatches # <<>>

\* C25: a DEPENDENCIES query on a file whose outgoing IMPORTS edges point to
\* ids without a node does not fail: those endpoints are left out of
\* metadata.dependencies, metadata.count is the number of outgoing IMPORTS
\* edges (duplicates counted) whose target node exists, and files is the one
\* path of the first File node, in insertion order, whose path ends with the
\* target's base name.
C25_DanglingImports ==
    DepAnswered =>
        LET file == DepMatches[1]
            existing == {k \in ImportsOf(file.id) : HasNode(nodes, edges[k].to)}
        IN  /\ ~thrown
            /\ result.intent = "DEPENDENCIES"
            /\ result.files = <<file.path>>
            /\ result.metadata.count = Cardinality(existing)
            /\ Len(result.metadata.dependencies) = Cardinality(existing)
            /\ \A d \in Range(result.metadata.dependencies) :
                  \E k \in existing : GetNode(nodes, edges[k].to).path = d
            /\ \A k \in ImportsOf(file.id) \ existing :
                  edges[k].to \notin Range(result.metadata.dependencies)

\* the query hit a.ts, which imports ba.ts twice and the absent zz.ts once
C25_Witness ==
    /\ DepAnswered
    /\ DepMatches[1].id = "a.ts"
    /\ result.metadata.count = 2
    /\ \E k \in ImportsOf("a.ts") : ~HasNode(nodes, edges[k].to)

----------------------------------------------------------------------------
(* Further claims about findCycles, checked under SpecCycles *)

\* visit is at a dependency entry, the next neighbour of the current node
Examining == cyPc = "loop" /\ frames # <<>> /\ Top.idx <= Len(Neighbors(depGraph, Top.node))

Examined == Neighbors(depGraph, Top.node)[Top.idx]

\* a closed walk of the dependency list that repeats only its first id
IsClosedWalk(c) ==
    /\ Len(c) >= 2
    /\ c[1] = c[Len(c)]
    /\ \A i \in 1..(Len(c) - 1) : <<c[i], c[i + 1]>> \in Range(deps)
    /\ \A i, j \in 1..(Len(c) - 1) : i # j => c[i] # c[j]

\* C26: every cycle findCycles emits is a closed walk of the dependency
\* graph: first and last id equal, every consecutive pair a (from, to) pair
\* of the dependency list, no id but the closing one twice; it is the DFS
\* path from the first occurrence of the on-stack neighbour to the current
\* node, followed by that neighbour.
C26_CyclesAreClosedWalks ==
    /\ [](\A i \in 1..Len(cycles) : IsClosedWalk(cycles[i]))
    /\ [][(Len(cycles') > Len(cycles)) =>
            /\ Examining
            /\ Examined \in Range(Top.path)
            /\ Top.path[Len(Top.path)] = Top.node
            /\ LET first == CHOOSE k \in 1..Len(Top.path) :
                               /\ Top.path[k] = Examined
                               /\ \A j \in 1..(k - 1) : Top.path[j] # Examined
               IN  cycles'[Len(cycles')]
                     = SubSeq(Top.path, first, Len(Top.path)) \o <<Examined>>]_vars

\* the cycle B, C, B was emitted from the DFS path A, B, C
C26_Witness ==
    /\ cyPc = "done"
    /\ deps = << <<"A", "B">>, <<"B", "C">>, <<"C", "B">> >>
    /\ cycles = << <<"B", "C", "B">> >>

\* C27: one cycle is emitted per dependency entry (counted with multiplicity)
\* whose target is on the recursion stack when the entry is examined, and no
\* other step emits one; so a dependency list without a repeated (from, to)
\* pair yields no two equal cycles.
C27_OneCyclePerBackEntry ==
    /\ [](cyPc \in {"loop", "done"} =>
            /\ Len(cycles) = backHits
            /\ NoDuplicates(deps) => NoDuplicates(cycles))
    /\ [][(cyPc = "loop") =>
            /\ (Examining /\ Examined \in recursionStack)
                  => (Len(cycles') = Len(cycles) + 1 /\ backHits' = backHits + 1)
            /\ ~(Examining /\ Examined \in recursionStack)
                  => (cycles' = cycles /\ backHits' = backHits)]_vars

\* four distinct dependency entries, two of them back to the stack, gave two
\* different cycles
C27_Witness ==
    /\ cyPc = "done"
    /\ Len(deps) = MaxDeps
    /\ NoDuplicates(deps)
    /\ Len(cycles) = 2
    /\ cycles[1] # cycles[2]

----------------------------------------------------------------------------
(* Claims about the parsed target, checked under SpecUsage *)

\* the word holds an upper-case letter
HasUpper(w) == w \in DOMAIN LowerTable /\ LowerTable[w] # w

\* the result of handleUsage when no function has the name
UsageNotFound ==
    /\ result.intent = "USAGE"
    /\ result.files = <<>>
    /\ result.functions = None
    /\ result.metadata = [error |-> <<"Function", Parse(question).target, "not found">>]

\* a USAGE question has been answered that names, in its own spelling, a
\* function of the graph whose name holds an upper-case letter
UsageNamesUpper ==
    /\ qPc = "done"
    /\ Parse(question).intent = "USAGE"
    /\ \E n \in Range(GetNodesByType(nodes, "Function")) :
          /\ HasUpper(n.name)
          /\ n.name \in Range(question)
          /\ Lower(n.name) = Parse(question).target

\* the target is a word of the lower-cased question without upper-case letter
TargetLowerCased ==
    qPc = "done" =>
        /\ Parse(question).target \in Range(Normalize(question))
        /\ ~HasUpper(Parse(question).target)

IsNodeOfType(ns, id, type) ==
    \E n \in Range(ns) : n.id = id /\ n.type = type

Dangling(ns, e) == ~HasNode(ns, e.from) \/ ~HasNode(ns, e.to)

C29_OnlyImportsDangle ==
    \A e \in Range(edges) :
        /\ e.type = "CALLS" =>
              IsNodeOfType(nodes, e.from, "Function") /\ IsNodeOfType(nodes, e.to, "Function")
        /\ e.type = "DEFINES" =>
              IsNodeOfType(nodes, e.from, "File") /\ IsNodeOfType(nodes, e.to, "Function")
        /\ Dangling(nodes, e) => e.type = "IMPORTS"

\* the pass is over with a CALLS edge, a DEFINES edge, a called name that
\* matched no function and an IMPORTS edge to a file that is no node
C29_Witness ==
    /\ bPc = "done"
    /\ \E e \in Range(edges) : e.type = "CALLS"
    /\ \E e \in Range(edges) : e.type = "DEFINES"
    /\ \E i \in 1..Len(bLog) : bLog[i].to = Undefined
    /\ \E e \in Range(edges) : e.type = "IMPORTS" /\ Dangling(nodes, e)

\* ---------------------------------------------------------------------
\* C30: for a question the parser does not answer and the planner calls
\* unknown, runQuery returns intent 'unknown' with no files and no functions
\* when the explainer is absent or disabled and intent 'general_query' when
\* it is enabled; a 'general_query' result is returned as handleGeneralQuery
\* made it, step 3 (explainResult) not having been taken.
UnknownQuestion ==
    /\ qPc \in {"enrich", "done"}
    /\ Parse(question).intent \notin DirectIntents
    /\ plan.intent = "unknown"

C30_GeneralQuery ==
    /\ UnknownQuestion =>
          /\ clientEnabled \in {"on", "off"}
          /\ clientEnabled = "off" =>
                /\ result.intent = "unknown"
                /\ result.files = <<>>
                /\ result.functions = Some(<<>>)
          /\ clientEnabled = "on" => result.intent = "general_query"
    /\ (qPc = "done" /\ result.intent = "general_query") =>
          explainer = "off" /\ result = base

\* an unknown question answered by the enabled explainer from files of the
\* graph has been returned
C30_Witness ==
    /\ UnknownQuestion
    /\ qPc = "done"
    /\ clientEnabled = "on"
    /\ result.intent = "general_query"
    /\ result.files # <<>>
    /\ explainer = "off"

\* ... and one answered without explainer
C30_WitnessDisabled ==
    /\ UnknownQuestion
    /\ qPc = "done"
    /\ clientEnabled = "off"
    /\ result.intent = "unknown"

\* ---------------------------------------------------------------------
\* C22: buildKnowledgeGraph fails exactly when there is no workspace folder.
\* With one it completes whatever findings are absent and whichever files
\* fail to extract: an absent finding and a failed file contribute nothing
\* to the graph, the findings that are there do, and the orchestrator is
\* created once the pass has returned.
HasFinding(name) == KbHas(storage, name)

FailedLeftOut ==
    \A f \in bFailed :
        /\ \A n \in Range(nodes) : n.type = "Function" => n.file # f
        /\ \A e \in Range(edges) : e.type = "DEFINES" => e.from # f

MissingLeftOut ==
    /\ ~HasFinding("archaeologist") => nodes = <<>>
    /\ ~HasFinding("detective") => \A e \in Range(edges) : e.type # "IMPORTS"

PresentPutIn ==
    (bPc # "start" /\ HasFinding("archaeologist")) =>
        /\ Range(FileOrder(nodes)) = UNION {Range(files) : files \in BuildFileOrders}
        /\ HasNode(nodes, BuildFolders[1])

C22_Safe ==
    /\ xPc = "failed" <=> wsFolder = "none"
    /\ xPc = "failed" => ~orchestrator /\ panels = <<>> /\ bPc = "start" /\ nodes = <<>>
    /\ FailedLeftOut
    /\ MissingLeftOut
    /\ PresentPutIn

C22_FailsOnlyWithoutWorkspace ==
    /\ []C22_Safe
    /\ (wsFolder = "open") ~> (bPc = "done" /\ orchestrator)

\* the orchestrator is there after a pass without the historian's finding
\* in which one file failed to extract and the other gave a function
C22_Witness ==
    /\ orchestrator
    /\ bPc = "done"
    /\ bFailed # {}
    /\ ~HasFinding("historian")
    /\ \E n \in Range(nodes) : n.type = "Function"

\* ... and after a pass without any metadata
C22_WitnessNoMetadata ==
    /\ orchestrator
    /\ bPc = "done"
    /\ ~HasFinding("archaeologist")

\* ---------------------------------------------------------------------
\* C23: no query is evaluated while the graph is being populated.  The
\* orchestrator is set only once buildKnowledgeGraph has returned; every
\* panel was given an orchestrator and there is none before the orchestrator
\* is set, so an openView command during the build opens none; every
\* runQuery call in flight finds the graph of the finished pass, the same as
\* when it was called and the same as every other call in flight finds.
C23_NoQueryDuringBuild ==
    /\ orchestrator => (bPc = "done" /\ phase = "ready")
    /\ \A i \in 1..Len(panels) : panels[i]
    /\ panels # <<>> => orchestrator
    /\ xPc \in {"activated", "building"} => panels = <<>>
    /\ \A i \in 1..Len(inflight) :
          /\ bPc = "done"
          /\ inflight[i].nodes = nodes
          /\ inflight[i].edges = edges

\* two runQuery calls are in flight on a graph with nodes and edges, from
\* two panels, after an openView command was refused during the build
C23_Witness ==
    /\ Len(inflight) = 2
    /\ Len(panels) = 2
    /\ refused > 0
    /\ nodes # <<>>
    /\ edges # <<>>

====
